---- MODULE Spec2Model ----
(***************************************************************************)
(* A model of the fsapi gateway: the sliding-window rate limiter           *)
(* (app/services/rate_limit_service.py), the token dependencies            *)
(* (app/dependencies_v1.py), and the metadata-driven SAP call pipeline     *)
(* (app/api/v1/sap.py, app/api/routes.py, app/services/sap_service.py).    *)
(*                                                                         *)
(* Time is counted in ticks; TicksPerSecond ticks make one second, so a    *)
(* time.time() value with a fractional part is a tick count that is not a  *)
(* multiple of TicksPerSecond.                                             *)
(***************************************************************************)
EXTENDS Integers, Sequences, FiniteSets, TLC

VARIABLES
    now,        \* the wall clock, in ticks (time.time())
    limits,     \* RateLimitService.RATE_LIMITS: endpoint type -> its configuration
    buckets,    \* RateLimiter._buckets: client_key -> bucket, or NoBucket
    last,       \* history: the most recent is_allowed call and what it returned
    run,        \* history: per key, the calls since one last found the bucket empty
    pc,         \* per thread: its position inside is_allowed
    lock,       \* RateLimiter._lock: the thread holding it, or NoThread
    local,      \* per thread: the local variables of its is_allowed call
    admitted,   \* history: how many concurrent calls returned allowed = True
    purged,     \* history: how many timestamps the concurrent calls popped
    arg,        \* the input of the function or handler under study
    ret,        \* what it returned, or NotCalled
    env         \* what the request depends on outside the process: the
                \* authorization store, the employee table, the SAP system

vars == <<now, limits, buckets, last, run, pc, lock, local, admitted, purged, arg, ret, env>>

rlVars == <<now, limits, buckets, last, run>>
thVars == <<pc, lock, local, admitted, purged>>
fnVars == <<arg, ret, env>>

----------------------------------------------------------------------------
(* Bounds of the model *)

MaxTime == 8            \* the clock stops after this many ticks
TicksPerSecond == 2     \* clock resolution: ticks in one second
MaxRequests == 2        \* largest max_requests a behaviour is configured with
MaxWindow == 2          \* largest window_seconds, in seconds
MaxCalls == 2           \* is_allowed calls one thread makes
MaxThreadTime == 4      \* the clock stops after this many ticks while threads run
MaxDateLen == 5         \* longest I_DATE string, in characters, drawn as an input

----------------------------------------------------------------------------
(* Small helpers *)

Max2(a, b) == IF a >= b THEN a ELSE b

\* Python's int() on a quotient: truncation toward zero.
IntTrunc(num, den) == IF num >= 0 THEN num \div den ELSE -((-num) \div den)

RECURSIVE SeqFilterGreater(_, _)
\* the timestamps of s that are > cutoff, order kept
SeqFilterGreater(s, cutoff) ==
    IF s = <<>> THEN <<>>
    ELSE IF Head(s) > cutoff THEN <<Head(s)>> \o SeqFilterGreater(Tail(s), cutoff)
         ELSE SeqFilterGreater(Tail(s), cutoff)

----------------------------------------------------------------------------
(* RateLimiter: app/services/rate_limit_service.py *)

Identifiers == {"client:a"}
Endpoints == {"sap"}

\* _get_client_key: f"{identifier}:{endpoint}"; the pair stands for the joined string
\* (no identifier or endpoint of the model contains the other's separator).
ClientKey(identifier, endpoint) == <<identifier, endpoint>>

Keys == {ClientKey(i, e) : i \in Identifiers, e \in Endpoints}

NoBucket == [present |-> FALSE]

NewBucket(max_requests, window_seconds) ==
    [present |-> TRUE, requests |-> <<>>,
     max_requests |-> max_requests, window_seconds |-> window_seconds]

\* a purge that keeps a request exactly window_seconds old
ExpiredStrict(ts, current_time, window_seconds) ==
    ts < current_time - window_seconds * TicksPerSecond

\* "requests[0] <= current_time - window_seconds", the loop condition of the purge
Expired(ts, current_time, window_seconds) ==
    ts <= current_time - window_seconds * TicksPerSecond

RECURSIVE PurgeFront(_, _, _)
\* while requests and requests[0] <= current_time - window_seconds: requests.popleft()
PurgeFront(requests, current_time, window_seconds) ==
    IF requests # <<>> /\ Expired(Head(requests), current_time, window_seconds)
    THEN PurgeFront(Tail(requests), current_time, window_seconds)
    ELSE requests

\* a limit test that lets one request too many through
LimitExceededOffByOne(requests, max_requests) == Len(requests) > max_requests

\* "len(requests) >= max_requests"
LimitExceeded(requests, max_requests) == Len(requests) >= max_requests

\* a retry_after without the floor of one second
RetryAfterNoFloor(oldest_request, window_seconds, current_time) ==
    IntTrunc(oldest_request + window_seconds * TicksPerSecond - current_time,
             TicksPerSecond)

\* retry_after = int(oldest_request + window_seconds - current_time), then max(.., 1)
RetryAfter(oldest_request, window_seconds, current_time) ==
    Max2(IntTrunc(oldest_request + window_seconds * TicksPerSecond - current_time,
                  TicksPerSecond), 1)

\* the rate_info of a denied call
DeniedInfo(requests, max_requests, window_seconds, current_time) ==
    LET oldest_request == IF requests # <<>> THEN Head(requests) ELSE current_time
    IN  [allowed |-> FALSE,
         limit |-> max_requests,
         remaining |-> 0,
         reset_time |-> IntTrunc(oldest_request + window_seconds * TicksPerSecond,
                                 TicksPerSecond),
         retry_after |-> RetryAfter(oldest_request, window_seconds, current_time)]

\* the rate_info of an admitted call; requests already holds current_time
AllowedInfo(requests, max_requests, window_seconds, current_time) ==
    [allowed |-> TRUE,
     limit |-> max_requests,
     remaining |-> max_requests - Len(requests),
     reset_time |-> IntTrunc(current_time + window_seconds * TicksPerSecond,
                             TicksPerSecond),
     retry_after |-> 0]

\* The body of is_allowed under the lock, run to completion: the buckets it leaves
\* and the (allowed, rate_info) pair it returns.
IsAllowedBody(bkts, current_time, identifier, max_requests, window_seconds, endpoint) ==
    LET client_key == ClientKey(identifier, endpoint)
        bucket == IF bkts[client_key].present THEN bkts[client_key]
                  ELSE NewBucket(max_requests, window_seconds)
        kept == PurgeFront(bucket.requests, current_time, window_seconds)
    IN  IF LimitExceeded(kept, max_requests)
        THEN [buckets |-> [bkts EXCEPT ![client_key] = [bucket EXCEPT !.requests = kept]],
              allowed |-> FALSE,
              info |-> DeniedInfo(kept, max_requests, window_seconds, current_time)]
        ELSE LET appended == Append(kept, current_time)
             IN  [buckets |-> [bkts EXCEPT ![client_key] =
                                  [bucket EXCEPT !.requests = appended]],
                  allowed |-> TRUE,
                  info |-> AllowedInfo(appended, max_requests, window_seconds,
                                       current_time)]

\* a sweep that drops every bucket not used at this very instant
CleanupIdleBuckets(bkts, current_time, max_age_seconds) ==
    [k \in DOMAIN bkts |->
        IF bkts[k].present
           /\ (bkts[k].requests = <<>>
               \/ current_time - bkts[k].requests[Len(bkts[k].requests)] > 0)
        THEN NoBucket
        ELSE bkts[k]]

\* cleanup_old_buckets: drop every bucket with no requests, or whose newest request
\* is more than max_age_seconds old
CleanupOldBuckets(bkts, current_time, max_age_seconds) ==
    [k \in DOMAIN bkts |->
        IF bkts[k].present
           /\ (bkts[k].requests = <<>>
               \/ current_time - bkts[k].requests[Len(bkts[k].requests)]
                      > max_age_seconds * TicksPerSecond)
        THEN NoBucket
        ELSE bkts[k]]

\* RateLimitService.RATE_LIMITS, scaled to the model: one (max_requests,
\* window_seconds) pair per endpoint type, fixed for the life of the process
LimitConfigs ==
    [max_requests : 1..MaxRequests, window_seconds : 1..MaxWindow]

\* cleanup_old_buckets' default max_age_seconds (3600 in the source, the longest
\* configured window), scaled to the model's longest window
DefaultMaxAge == MaxWindow

----------------------------------------------------------------------------
(* The rate limiter called from one thread at a time *)

NoCall == [called |-> FALSE]

\* what a call contributes to the history of its key
RunEntry(current_time, result) ==
    [time |-> current_time, allowed |-> result.allowed,
     retry_after |-> result.info.retry_after]

\* a run restarts at a call that finds no unexpired request in its bucket, and
\* records its first max_requests + 1 calls
NextRun(old, kept, max_requests, entry) ==
    IF kept = <<>> THEN <<entry>>
    ELSE IF Len(old) <= max_requests THEN Append(old, entry)
    ELSE old

InitRL ==
    /\ now = 0
    /\ limits \in [Endpoints -> LimitConfigs]
    /\ buckets = [k \in Keys |-> NoBucket]
    /\ last = NoCall
    /\ run = [k \in Keys |-> <<>>]

InitThreadsIdle ==
    /\ pc = <<>>
    /\ lock = "none"
    /\ local = <<>>
    /\ admitted = 0
    /\ purged = 0

InitFnIdle ==
    /\ arg = "none"
    /\ ret = "none"
    /\ env = "none"

\* time passes
Tick ==
    /\ now < MaxTime
    /\ now' = now + 1
    /\ UNCHANGED <<limits, buckets, last, run>>

\* RateLimitService.check_rate_limit(identifier, endpoint_type): one whole
\* is_allowed call with the endpoint type's configured limits
CheckRateLimit(identifier, endpoint_type) ==
    LET cfg == limits[endpoint_type]
        key == ClientKey(identifier, endpoint_type)
        before == IF buckets[key].present THEN buckets[key].requests ELSE <<>>
        result == IsAllowedBody(buckets, now, identifier, cfg.max_requests,
                                cfg.window_seconds, endpoint_type)
    IN  /\ buckets' = result.buckets
        /\ last' = [called |-> TRUE, key |-> key, time |-> now,
                    max_requests |-> cfg.max_requests,
                    window_seconds |-> cfg.window_seconds,
                    before |-> before,
                    after |-> result.buckets[key].requests,
                    allowed |-> result.allowed, info |-> result.info]
        /\ run' = [run EXCEPT ![key] =
                      NextRun(@, PurgeFront(before, now, cfg.window_seconds),
                              cfg.max_requests, RunEntry(now, result))]
        /\ UNCHANGED <<now, limits>>

\* RateLimitService.cleanup_old_data(), the periodic sweep
CleanupOldData ==
    /\ buckets' = CleanupOldBuckets(buckets, now, DefaultMaxAge)
    /\ buckets' # buckets
    /\ UNCHANGED <<now, limits, last, run>>

NextRL ==
    \/ Tick /\ UNCHANGED <<thVars, fnVars>>
    \/ \E i \in Identifiers, e \in Endpoints :
          CheckRateLimit(i, e) /\ UNCHANGED <<thVars, fnVars>>
    \/ CleanupOldData /\ UNCHANGED <<thVars, fnVars>>

InitSpecRL == InitRL /\ InitThreadsIdle /\ InitFnIdle

SpecRL == InitSpecRL /\ [][NextRL]_vars

----------------------------------------------------------------------------
(* Properties of the rate limiter called from one thread at a time *)

\* C3: immediately after every is_allowed call that returns allowed = True the
\* bucket's timestamp sequence holds at most max_requests entries (and no bucket
\* ever holds more than its endpoint type's max_requests).
C3_BucketBound ==
    /\ (last.called /\ last.allowed) => Len(last.after) <= last.max_requests
    /\ \A i \in Identifiers, e \in Endpoints :
          buckets[ClientKey(i, e)].present =>
              Len(buckets[ClientKey(i, e)].requests) <= limits[e].max_requests

\* an admission that filled a bucket of at least two slots
C3_Witness ==
    /\ last.called /\ last.allowed
    /\ last.max_requests >= 2
    /\ Len(last.after) = last.max_requests
    /\ buckets[last.key].present /\ buckets[last.key].requests = last.after

\* C5: of N+1 consecutive calls on one key, starting at a bucket with no unexpired
\* request and all made less than W after the first, the first N = max_requests are
\* allowed and call N+1 is denied with 0 < retry_after <= W.
C5_BurstThenDeny ==
    \A i \in Identifiers, e \in Endpoints :
        LET r == run[ClientKey(i, e)]
            N == limits[e].max_requests
            W == limits[e].window_seconds
        IN  \A n \in 1..Len(r) :
                (/\ r[n].time < r[1].time + W * TicksPerSecond
                 /\ \A m \in 1..(n - 1) : r[m].time <= r[m + 1].time)
                => /\ (n <= N => r[n].allowed)
                   /\ (n = N + 1 =>
                          /\ ~r[n].allowed
                          /\ 0 < r[n].retry_after
                          /\ r[n].retry_after <= W)

\* a burst of N+1 >= 3 calls spread over more than one instant, all inside the
\* window, whose last call is denied
C5_Witness ==
    \E i \in Identifiers, e \in Endpoints :
        LET r == run[ClientKey(i, e)]
            N == limits[e].max_requests
            W == limits[e].window_seconds
        IN  /\ N >= 2
            /\ Len(r) = N + 1
            /\ r[1].time < r[N + 1].time
            /\ r[N + 1].time < r[1].time + W * TicksPerSecond
            /\ \A n \in 1..N : r[n].allowed
            /\ ~r[N + 1].allowed

\* The reference step of C6, from the claim's words: remove every timestamp
\* <= now - window_seconds, then compare the count with max_requests.
RefKept(before, t, window_seconds) ==
    SeqFilterGreater(before, t - window_seconds * TicksPerSecond)

RefAllowed(before, t, max_requests, window_seconds) ==
    Len(RefKept(before, t, window_seconds)) < max_requests

RefAfter(before, t, max_requests, window_seconds) ==
    IF RefAllowed(before, t, max_requests, window_seconds)
    THEN Append(RefKept(before, t, window_seconds), t)
    ELSE RefKept(before, t, window_seconds)

\* oldest_remaining_timestamp + window_seconds - now, in ticks
RefWait(before, t, window_seconds) ==
    Head(RefKept(before, t, window_seconds)) + window_seconds * TicksPerSecond - t

\* what the call and the reference agree on whatever the rounding of retry_after
RefStepAgrees ==
    /\ last.after = RefAfter(last.before, last.time, last.max_requests,
                             last.window_seconds)
    /\ last.allowed = RefAllowed(last.before, last.time, last.max_requests,
                                 last.window_seconds)
    /\ last.info.allowed = last.allowed
    /\ last.allowed =>
          /\ last.info.remaining = last.max_requests - Len(last.after)
          /\ last.info.retry_after = 0
    /\ ~last.allowed => last.info.remaining = 0

----------------------------------------------------------------------------
(* The rate limiter called from several threads: is_allowed step by step *)

Threads == {"t1", "t2"}

NoThread == "none"

\* a lock that excludes nobody
LockAlwaysFree == TRUE

\* "with self._lock": the lock can be taken when no thread holds it
LockFree == lock = NoThread

IdleLocal ==
    [calls |-> 0, current_time |-> 0, key |-> <<>>, max_requests |-> 0,
     window_seconds |-> 0, order |-> 0, returned |-> FALSE, allowed |-> FALSE,
     retry_after |-> 0]

InitThreads ==
    /\ now = 0
    /\ limits \in [Endpoints -> LimitConfigs]
    /\ buckets = [k \in Keys |-> NoBucket]
    /\ last = NoCall
    /\ run = [k \in Keys |-> <<>>]
    /\ pc = [t \in Threads |-> "idle"]
    /\ lock = NoThread
    /\ local = [t \in Threads |-> IdleLocal]
    /\ admitted = 0
    /\ purged = 0
    /\ arg = "none"
    /\ ret = "none"
    /\ env = "none"

\* the clock moves while threads run
ThTick ==
    /\ now < MaxThreadTime
    /\ now' = now + 1
    /\ UNCHANGED <<limits, buckets, last, run, thVars, fnVars>>

\* lines 49-50: current_time = time.time() and the key, read before the lock
ThCall(t, identifier, endpoint) ==
    /\ pc[t] = "idle"
    /\ local[t].calls < MaxCalls
    /\ local' = [local EXCEPT ![t] =
                    [calls |-> @.calls + 1, current_time |-> now,
                     key |-> ClientKey(identifier, endpoint),
                     max_requests |-> limits[endpoint].max_requests,
                     window_seconds |-> limits[endpoint].window_seconds,
                     order |-> 0, returned |-> FALSE, allowed |-> FALSE,
                     retry_after |-> 0]]
    /\ pc' = [pc EXCEPT ![t] = "enter"]
    /\ UNCHANGED <<rlVars, lock, admitted, purged, fnVars>>

\* lines 52-61: take the lock, create the bucket if the key has none
ThEnter(t) ==
    /\ pc[t] = "enter"
    /\ LockFree
    /\ lock' = t
    /\ buckets' = [buckets EXCEPT ![local[t].key] =
                      IF @.present THEN @
                      ELSE NewBucket(local[t].max_requests, local[t].window_seconds)]
    /\ local' = [local EXCEPT ![t].order = admitted + purged + 1]
    /\ pc' = [pc EXCEPT ![t] = "purge"]
    /\ UNCHANGED <<now, limits, last, run, admitted, purged, fnVars>>

\* lines 64-65: one turn of the purge loop
ThPurge(t) ==
    /\ pc[t] = "purge"
    /\ LET requests == buckets[local[t].key].requests
       IN  IF requests # <<>>
              /\ Expired(Head(requests), local[t].current_time, local[t].window_seconds)
           THEN /\ buckets' = [buckets EXCEPT ![local[t].key].requests = Tail(@)]
                /\ purged' = purged + 1
                /\ pc' = pc
           ELSE /\ pc' = [pc EXCEPT ![t] = "check"]
                /\ UNCHANGED <<buckets, purged>>
    /\ UNCHANGED <<now, limits, last, run, lock, local, admitted, fnVars>>

\* lines 68-82: the limit test; a denied call builds its rate_info and returns,
\* which releases the lock
ThCheck(t) ==
    /\ pc[t] = "check"
    /\ LET requests == buckets[local[t].key].requests
       IN  IF LimitExceeded(requests, local[t].max_requests)
           THEN /\ local' = [local EXCEPT
                      ![t].returned = TRUE,
                      ![t].allowed = FALSE,
                      ![t].retry_after =
                          DeniedInfo(requests, local[t].max_requests,
                                     local[t].window_seconds,
                                     local[t].current_time).retry_after]
                /\ lock' = IF lock = t THEN NoThread ELSE lock
                /\ pc' = [pc EXCEPT ![t] = "idle"]
           ELSE /\ pc' = [pc EXCEPT ![t] = "append"]
                /\ UNCHANGED <<local, lock>>
    /\ UNCHANGED <<rlVars, admitted, purged, fnVars>>

\* lines 85-95: requests.append(current_time), the rate_info, and the return, which
\* releases the lock
ThAppend(t) ==
    /\ pc[t] = "append"
    /\ buckets' = [buckets EXCEPT ![local[t].key].requests = Append(@, local[t].current_time)]
    /\ admitted' = admitted + 1
    /\ local' = [local EXCEPT ![t].returned = TRUE, ![t].allowed = TRUE,
                              ![t].retry_after = 0]
    /\ lock' = IF lock = t THEN NoThread ELSE lock
    /\ pc' = [pc EXCEPT ![t] = "idle"]
    /\ UNCHANGED <<now, limits, last, run, purged, fnVars>>

NextThreads ==
    \/ ThTick
    \/ \E t \in Threads, i \in Identifiers, e \in Endpoints : ThCall(t, i, e)
    \/ \E t \in Threads : ThEnter(t)
    \/ \E t \in Threads : ThPurge(t)
    \/ \E t \in Threads : ThCheck(t)
    \/ \E t \in Threads : ThAppend(t)

SpecThreads == InitThreads /\ [][NextThreads]_vars

RECURSIVE StoredIn(_)
\* how many timestamps the buckets of the keys ks hold together
StoredIn(ks) ==
    IF ks = {} THEN 0
    ELSE LET k == CHOOSE x \in ks : TRUE
         IN  (IF buckets[k].present THEN Len(buckets[k].requests) ELSE 0)
             + StoredIn(ks \ {k})

\* C4: in every interleaving of concurrent is_allowed calls, each admission takes
\* one free slot of its bucket: the calls admitted so far are exactly the timestamps
\* stored plus those purged, and no bucket holds more than max_requests, so with one
\* slot left at most one caller is admitted until a purge frees another.
C4_LinearizedAdmission ==
    /\ \A i \in Identifiers, e \in Endpoints :
          buckets[ClientKey(i, e)].present =>
              Len(buckets[ClientKey(i, e)].requests) <= limits[e].max_requests
    /\ admitted - purged = StoredIn(Keys)

\* two overlapping calls on one key with one slot left: the thread that read the
\* clock first took the lock second and was denied, the other was admitted
C4_Witness ==
    \E t1 \in Threads, t2 \in Threads :
        /\ t1 # t2
        /\ local[t1].key = local[t2].key
        /\ local[t1].returned /\ local[t1].allowed
        /\ local[t2].returned /\ ~local[t2].allowed
        /\ local[t2].current_time < local[t1].current_time
        /\ local[t1].order < local[t2].order
        /\ purged = 0
        /\ local[t1].max_requests >= 2

----------------------------------------------------------------------------
(* JSON values, as the request body and the metadata documents hold them.     *)
(* A string is its sequence of characters; a dict keeps its keys in insertion *)
(* order beside their values.                                                 *)

JNull == [kind |-> "null"]
JStr(chars) == [kind |-> "str", chars |-> chars]
JNum(n) == [kind |-> "num", n |-> n]
JBool(b) == [kind |-> "bool", b |-> b]
JList(items) == [kind |-> "list", items |-> items]
JDict(keys, vals) == [kind |-> "dict", keys |-> keys, vals |-> vals]
JEmptyDict == JDict(<<>>, <<>>)

\* "key in d" for a dict
HasKey(d, key) == \E i \in 1..Len(d.keys) : d.keys[i] = key

\* d[key] for a dict that has the key
Get(d, key) == d.vals[CHOOSE i \in 1..Len(d.keys) : d.keys[i] = key]

\* d.get(key, default)
GetOr(d, key, default) == IF HasKey(d, key) THEN Get(d, key) ELSE default

\* d[key] = val on a dict: a new key goes last, an old key keeps its place
Put(d, key, val) ==
    IF HasKey(d, key)
    THEN [d EXCEPT !.vals = [i \in 1..Len(d.vals) |->
                                IF d.keys[i] = key THEN val ELSE d.vals[i]]]
    ELSE [d EXCEPT !.keys = Append(@, key), !.vals = Append(d.vals, val)]

\* Python's truth value of a JSON value ("if val", "not val")
Truthy(v) ==
    CASE v.kind = "null" -> FALSE
      [] v.kind = "str" -> v.chars # <<>>
      [] v.kind = "num" -> v.n # 0
      [] v.kind = "bool" -> v.b
      [] v.kind = "list" -> v.items # <<>>
      [] v.kind = "dict" -> v.keys # <<>>

RECURSIVE SplitOn(_, _)
\* str.split(sep) for a one-character separator: the pieces between separators
SplitOn(chars, sep) ==
    IF \A i \in 1..Len(chars) : chars[i] # sep
    THEN <<chars>>
    ELSE LET first == CHOOSE i \in 1..Len(chars) :
                         /\ chars[i] = sep
                         /\ \A j \in 1..(i - 1) : chars[j] # sep
         IN  <<SubSeq(chars, 1, first - 1)>>
             \o SplitOn(SubSeq(chars, first + 1, Len(chars)), sep)

RECURSIVE Flatten(_)
\* "".join(parts)
Flatten(parts) ==
    IF parts = <<>> THEN <<>> ELSE Head(parts) \o Flatten(Tail(parts))

----------------------------------------------------------------------------
(* Function metadata documents: sftp-root/metadata/<function_name>.json.      *)
(* input_parameters is a tree whose leaves are field descriptors              *)
(* {type, length, required}; a node without a true "required" is descended.   *)

\* a field descriptor {"type": .., "length": .., "required": required}
MLeaf(required) ==
    JDict(<<"type", "length", "required">>,
          <<JStr(<<"C">>), JNum(8), JBool(required)>>)

\* "isinstance(value, dict) and value.get("required", False)"
IsRequiredLeaf(value) ==
    value.kind = "dict" /\ Truthy(GetOr(value, "required", JBool(FALSE)))

RECURSIVE ExtractRequiredFields(_, _)
\* extract_required_fields(parameters, parent_key): the dotted paths of the required
\* leaves, each path the sequence of its keys (keys hold no '.', so joining them
\* with '.' and splitting again gives the sequence back)
ExtractRequiredFields(parameters, parent_key) ==
    LET Visit[i \in 0..Len(parameters.keys)] ==
            IF i = 0 THEN <<>>
            ELSE LET value == parameters.vals[i]
                     current_key == Append(parent_key, parameters.keys[i])
                 IN  Visit[i - 1] \o
                     (IF IsRequiredLeaf(value) THEN <<current_key>>
                      ELSE IF value.kind = "dict"
                           THEN ExtractRequiredFields(value, current_key)
                           ELSE <<>>)
    IN  Visit[Len(parameters.keys)]

\* what "key in data" and "data[key]" do for one segment of a path: the value, None
\* (key absent), or a TypeError
Raised == [raised |-> TRUE]
Returned(v) == [raised |-> FALSE, value |-> v]

\* "key in data" where data is a str: key is a substring of it
IsSubstring(key, chars) ==
    \E i \in 1..(Len(chars) - Len(key) + 1) : SubSeq(chars, i, i + Len(key) - 1) = key

RECURSIVE ExtractNestedValue(_, _, _)
\* extract_nested_value(data, keys); names gives each key's characters, which is
\* what "key in data" compares when data is a str
ExtractNestedValue(data, keys, names) ==
    IF keys = <<>> THEN Returned(data)
    ELSE LET key == Head(keys)
         IN  CASE data.kind = "dict" ->
                    IF HasKey(data, key)
                    THEN ExtractNestedValue(Get(data, key), Tail(keys), names)
                    ELSE Returned(JNull)
               [] data.kind = "str" ->
                    \* a substring test, then str[key]: TypeError
                    IF IsSubstring(names[key], data.chars) THEN Raised
                    ELSE Returned(JNull)
               [] data.kind = "list" ->
                    \* membership test, then list[key]: TypeError
                    IF \E i \in 1..Len(data.items) :
                           /\ data.items[i].kind = "str"
                           /\ data.items[i].chars = names[key]
                    THEN Raised
                    ELSE Returned(JNull)
               [] OTHER -> Raised   \* "in" on None, a number or a bool: TypeError

\* the characters of the metadata field names of the model
FieldChars ==
    [k \in {"A", "B", "G", "I_DATE", "QTY", "MATNR", "TEXT"} |->
        CASE k = "A" -> <<"A">>
          [] k = "B" -> <<"B">>
          [] k = "G" -> <<"G">>
          [] k = "I_DATE" -> <<"I", "_", "D", "A", "T", "E">>
          [] k = "QTY" -> <<"Q", "T", "Y">>
          [] k = "MATNR" -> <<"M", "A", "T", "N", "R">>
          [] k = "TEXT" -> <<"T", "E", "X", "T">>]

\* An HTTPException(status_code, detail), or any other exception, which the
\* handler's last except clause turns into a 500
HttpError(status, what, items) ==
    [ok |-> FALSE, status |-> status, what |-> what, items |-> items]
OtherError(what) ==
    [ok |-> FALSE, status |-> 0, what |-> what, items |-> <<>>]
Passed == [ok |-> TRUE]

\* "if not extract_nested_value(...)": the field is listed as missing
ListedMissing(value) == ~Truthy(value)

\* validate_input_parameters(parameters, metadata)
ValidateInputParameters(parameters, metadata) ==
    LET required_inputs ==
            ExtractRequiredFields(GetOr(metadata, "input_parameters", JEmptyDict), <<>>)
        input == GetOr(parameters, "input", JEmptyDict)
        found == [i \in 1..Len(required_inputs) |->
                     ExtractNestedValue(input, required_inputs[i], FieldChars)]
        Missing[i \in 0..Len(required_inputs)] ==
            IF i = 0 THEN <<>>
            ELSE IF ListedMissing(found[i].value)
                 THEN Append(Missing[i - 1], required_inputs[i])
                 ELSE Missing[i - 1]
    IN  IF \E i \in 1..Len(required_inputs) : found[i].raised
        THEN OtherError("TypeError")
        ELSE IF Missing[Len(required_inputs)] # <<>>
             THEN HttpError(400, "missing_inputs", Missing[Len(required_inputs)])
             ELSE Passed

\* the required field names of one table: the keys of table_meta["fields"] whose
\* descriptor has a true "required"
RequiredTableFields(table_meta) ==
    LET fields_meta == Get(table_meta, "fields")
        Visit[i \in 0..Len(fields_meta.keys)] ==
            IF i = 0 THEN <<>>
            ELSE IF Truthy(GetOr(fields_meta.vals[i], "required", JBool(FALSE)))
                 THEN Append(Visit[i - 1], fields_meta.keys[i])
                 ELSE Visit[i - 1]
    IN  Visit[Len(fields_meta.keys)]

\* "field not in row" for one row of a table: a key test on a dict, a substring
\* test on a str, a membership test on a list, a TypeError on anything else
FieldNotIn(field, row) ==
    CASE row.kind = "dict" -> Returned(JBool(~HasKey(row, field)))
      [] row.kind = "str" -> Returned(JBool(~IsSubstring(FieldChars[field], row.chars)))
      [] row.kind = "list" ->
            Returned(JBool(~\E i \in 1..Len(row.items) :
                               /\ row.items[i].kind = "str"
                               /\ row.items[i].chars = FieldChars[field]))
      [] OTHER -> Raised

\* the required fields that one row lacks, in order; Raised if a test raises
MissingInRow(required_fields, row) ==
    LET Visit[i \in 0..Len(required_fields)] ==
            IF i = 0 THEN <<>>
            ELSE IF FieldNotIn(required_fields[i], row).value.b
                 THEN Append(Visit[i - 1], required_fields[i])
                 ELSE Visit[i - 1]
    IN  IF \E i \in 1..Len(required_fields) : FieldNotIn(required_fields[i], row).raised
        THEN Raised
        ELSE Returned(Visit[Len(required_fields)])

\* lines 103-108: missing_fields after the isinstance branches. A fields value that
\* is neither a dict nor a list leaves missing_fields as the previous table left it
\* (unbound for the first table).
Unbound == [bound |-> FALSE]
Bound(items) == [bound |-> TRUE, items |-> items]

MissingFields(fields, required_fields, previous) ==
    CASE fields.kind = "dict" ->
            Returned(Bound(MissingInRow(required_fields, fields).value))
      [] fields.kind = "list" ->
            LET rows == fields.items
                Visit[i \in 0..Len(rows)] ==
                    IF i = 0 THEN <<>>
                    ELSE Visit[i - 1] \o MissingInRow(required_fields, rows[i]).value
            IN  IF \E i \in 1..Len(rows) : MissingInRow(required_fields, rows[i]).raised
                THEN Raised
                ELSE Returned(Bound(Visit[Len(rows)]))
      [] OTHER -> Returned(previous)

RECURSIVE ValidateTablesFrom(_, _, _, _)
\* the loop of validate_table_parameters from the i-th declared table on
ValidateTablesFrom(i, table_parameters_meta, request_tables, previous) ==
    IF i > Len(table_parameters_meta.keys) THEN Passed
    ELSE LET table_name == table_parameters_meta.keys[i]
             table_meta == table_parameters_meta.vals[i]
         IN  IF ~HasKey(request_tables, table_name)
             THEN HttpError(400, "missing_table", <<table_name>>)
             ELSE IF Get(request_tables, table_name).kind # "dict"
             THEN OtherError("AttributeError")     \* .get on a non-dict table entry
             ELSE LET fields == GetOr(Get(request_tables, table_name), "fields",
                                      JEmptyDict)
                      required_fields == RequiredTableFields(table_meta)
                      missing == MissingFields(fields, required_fields, previous)
                  IN  IF ~Truthy(fields)
                      THEN HttpError(400, "no_fields", <<table_name>>)
                      ELSE IF missing.raised THEN OtherError("TypeError")
                      ELSE IF ~missing.value.bound
                      THEN OtherError("UnboundLocalError")
                      ELSE IF missing.value.items # <<>>
                      THEN HttpError(400, "missing_table_fields",
                                     <<table_name>> \o missing.value.items)
                      ELSE ValidateTablesFrom(i + 1, table_parameters_meta,
                                              request_tables, missing.value)

\* validate_table_parameters(parameters, metadata); the request's "tables", when
\* present, is a dict
ValidateTableParameters(parameters, metadata) ==
    ValidateTablesFrom(1, GetOr(metadata, "table_parameters", JEmptyDict),
                       GetOr(parameters, "tables", JEmptyDict), Unbound)

\* lines 131-133: f"{date_parts[2]}{date_parts[1]}{date_parts[0]}"
DateValue(date_parts) == date_parts[3] \o date_parts[2] \o date_parts[1]

\* lines 129-137: the value copied for one declared input key
InputValue(key, val) ==
    IF key = "I_DATE" /\ Truthy(val)
    THEN IF val.kind # "str" THEN Raised       \* val.split: AttributeError
         ELSE LET date_parts == SplitOn(val.chars, ".")
              IN  IF Len(date_parts) = 3
                  THEN Returned(JStr(DateValue(date_parts)))
                  ELSE Returned(val)
    ELSE Returned(val)

\* prepare_sap_data(parameters, metadata): the arguments of the remote call, or an
\* exception; the request's "input" and "tables", when present, are dicts
PrepareSapData(parameters, metadata) ==
    IF parameters.kind # "dict" THEN OtherError("ValueError")
    ELSE
    LET input == GetOr(parameters, "input", JEmptyDict)
        declared == GetOr(metadata, "input_parameters", JEmptyDict)
        tables_meta == GetOr(metadata, "table_parameters", JEmptyDict)
        tables == GetOr(parameters, "tables", JEmptyDict)
        Inputs[i \in 0..Len(input.keys)] ==
            IF i = 0 THEN JEmptyDict
            ELSE IF HasKey(declared, input.keys[i])
                 THEN Put(Inputs[i - 1], input.keys[i],
                          InputValue(input.keys[i], input.vals[i]).value)
                 ELSE Inputs[i - 1]
        Tables[i \in 0..Len(tables_meta.keys)] ==
            IF i = 0 THEN Inputs[Len(input.keys)]
            ELSE LET table_name == tables_meta.keys[i]
                 IN  IF HasKey(tables, table_name)
                     THEN LET fields == GetOr(Get(tables, table_name), "fields",
                                              JEmptyDict)
                          IN  Put(Tables[i - 1], table_name,
                                  IF fields.kind = "dict" THEN JList(<<fields>>)
                                  ELSE fields)
                     ELSE Tables[i - 1]
    IN  IF input.kind # "dict" \/ tables.kind # "dict"
        THEN OtherError("AttributeError")
        ELSE IF \E i \in 1..Len(input.keys) :
               /\ HasKey(declared, input.keys[i])
               /\ InputValue(input.keys[i], input.vals[i]).raised
        THEN OtherError("AttributeError")
        ELSE IF \E i \in 1..Len(tables_meta.keys) :
                    /\ HasKey(tables, tables_meta.keys[i])
                    /\ Get(tables, tables_meta.keys[i]).kind # "dict"
        THEN OtherError("AttributeError")
        ELSE [ok |-> TRUE, data |-> Tables[Len(tables_meta.keys)]]

----------------------------------------------------------------------------
(* The request validator and transformer applied to drawn inputs *)

NotCalled == [called |-> FALSE]
Result(r) == [called |-> TRUE, result |-> r]

\* every string of at most n characters over the alphabet
StringsUpTo(alphabet, n) == UNION {[1..k -> alphabet] : k \in 0..n}

\* I_DATE values: short strings of digits and dots, and the documented examples
DateStrings ==
    StringsUpTo({"1", "2", "."}, MaxDateLen)
    \cup { <<"2", "0", "2", "4", ".", "0", "3", ".", "1", "5">>,
           <<"2", "0", "2", "4", ".", "0", "1", ".", "3", "1">>,
           <<"1", "5", "/", "0", "3", "/", "2", "0", "2", "4">> }

\* a metadata document declaring the input field I_DATE
DateMetadata ==
    JDict(<<"input_parameters">>, << JDict(<<"I_DATE">>, <<MLeaf(TRUE)>>) >>)

DateArgs ==
    { [fn |-> "prepare_sap_data",
       parameters |-> JDict(<<"input">>, << JDict(<<"I_DATE">>, <<JStr(d)>>) >>),
       metadata |-> DateMetadata] : d \in DateStrings }

\* the values a request field may hold
LeafValues ==
    { JNull, JStr(<<>>), JStr(<<"x">>), JNum(0), JNum(7), JBool(FALSE), JBool(TRUE),
      JList(<<>>), JEmptyDict }

\* input schemas: a required field A; A and a required field B nested in a group G;
\* the same with A optional
InputSchemas ==
    { JDict(<<"input_parameters">>, << JDict(<<"A">>, <<MLeaf(TRUE)>>) >>),
      JDict(<<"input_parameters">>,
            << JDict(<<"A", "G">>, <<MLeaf(TRUE), JDict(<<"B">>, <<MLeaf(TRUE)>>)>>) >>),
      JDict(<<"input_parameters">>,
            << JDict(<<"A", "G">>, <<MLeaf(FALSE), JDict(<<"B">>, <<MLeaf(TRUE)>>)>>) >>) }

\* request input trees over the keys A and G
InputTrees ==
    LET as == {<<>>} \cup {<< <<"A", v>> >> : v \in LeafValues}
        gs == {<<>>}
              \cup {<< <<"G", JDict(<<"B">>, <<v>>)>> >> : v \in LeafValues}
              \cup {<< <<"G", v>> >> : v \in {JEmptyDict, JStr(<<"B">>), JNum(1), JNull}}
    IN  { LET items == a \o g
          IN  JDict([i \in 1..Len(items) |-> items[i][1]],
                    [i \in 1..Len(items) |-> items[i][2]]) : a \in as, g \in gs }

ValidateArgs ==
    { [fn |-> "validate_input_parameters",
       parameters |-> JDict(<<"input">>, <<t>>), metadata |-> m]
          : t \in InputTrees, m \in InputSchemas }
    \cup { [fn |-> "validate_input_parameters",
            parameters |-> JEmptyDict, metadata |-> m] : m \in InputSchemas }

InitPure ==
    /\ arg \in DateArgs \cup ValidateArgs
    /\ ret = NotCalled
    /\ env = "none"
    /\ now = 0
    /\ limits = [e \in Endpoints |-> [max_requests |-> 1, window_seconds |-> 1]]
    /\ buckets = [k \in Keys |-> NoBucket]
    /\ last = NoCall
    /\ run = [k \in Keys |-> <<>>]
    /\ pc = <<>>
    /\ lock = NoThread
    /\ local = <<>>
    /\ admitted = 0
    /\ purged = 0

ApplyPrepareSapData ==
    /\ arg.fn = "prepare_sap_data"
    /\ ~ret.called
    /\ ret' = Result(PrepareSapData(arg.parameters, arg.metadata))
    /\ UNCHANGED <<arg, env, rlVars, thVars>>

ApplyValidateInputParameters ==
    /\ arg.fn = "validate_input_parameters"
    /\ ~ret.called
    /\ ret' = Result(ValidateInputParameters(arg.parameters, arg.metadata))
    /\ UNCHANGED <<arg, env, rlVars, thVars>>

NextPure ==
    \/ ApplyPrepareSapData
    \/ ApplyValidateInputParameters

SpecPure == InitPure /\ [][NextPure]_vars

\* C7: prepare_sap_data emits an I_DATE given as three dot-separated components in
\* the same component order with the separators removed ("2024.01.31" becomes
\* "20240131").
C7_DateKeepsComponentOrder ==
    (ret.called /\ arg.fn = "prepare_sap_data"
       /\ LET parts == SplitOn(Get(Get(arg.parameters, "input"), "I_DATE").chars, ".")
          IN  Len(parts) = 3 /\ \A i \in 1..3 : parts[i] # <<>>)
    => /\ ret.result.ok
       /\ Get(ret.result.data, "I_DATE") =
             JStr(Flatten(SplitOn(Get(Get(arg.parameters, "input"), "I_DATE").chars,
                                  ".")))

\* the claim's "resolves to a value that is neither None nor the empty string"
RECURSIVE ResolvesNonEmpty(_, _)
ResolvesNonEmpty(data, path) ==
    IF path = <<>>
    THEN ~(data.kind = "null" \/ (data.kind = "str" /\ data.chars = <<>>))
    ELSE /\ data.kind = "dict"
         /\ HasKey(data, Head(path))
         /\ ResolvesNonEmpty(Get(data, Head(path)), Tail(path))

\* C8: validate_input_parameters passes (reports no missing input) if and only if
\* every required dotted path of the schema resolves in the request's input to a
\* value that is neither None nor the empty string; a required 0, false or empty
\* container is not reported missing.
C8_MissingIffNoneOrEmpty ==
    (ret.called /\ arg.fn = "validate_input_parameters")
    => LET required ==
               ExtractRequiredFields(Get(arg.metadata, "input_parameters"), <<>>)
           input == GetOr(arg.parameters, "input", JEmptyDict)
       IN  ret.result.ok <=>
               \A i \in 1..Len(required) : ResolvesNonEmpty(input, required[i])

----------------------------------------------------------------------------
(* Bearer tokens: app/dependencies_v1.py, app/dependencies.py *)

\* a claim the payload does not carry
NoClaim == "<absent>"
\* a TokenData field left at None
NoId == "<None>"

\* the tokens a request may present: signed with SECRET_KEY or not, an expiry in
\* whole seconds, a "sub" and a "type" claim
Tokens ==
    [signed : BOOLEAN, exp : {0, 5}, sub : {NoClaim, "", "c1", "e1"},
     type : {NoClaim, "client", "user", "admin"}]

\* the clock as jose reads it: whole seconds
NowSeconds == now \div TicksPerSecond

\* jwt.decode(token, SECRET_KEY, algorithms=[ALGORITHM]): a JWTError for a bad
\* signature or an expiry in the past, else the payload
JwtDecode(token) ==
    IF ~token.signed THEN [ok |-> FALSE, error |-> "invalid"]
    ELSE IF token.exp < NowSeconds THEN [ok |-> FALSE, error |-> "expired"]
    ELSE [ok |-> TRUE, sub |-> token.sub, type |-> token.type]

\* payload.get("type", "client")
TokenType(payload) == IF payload.type = NoClaim THEN "client" ELSE payload.type

AuthenticationError(code) ==
    [ok |-> FALSE, status |-> 401, what |-> code, items |-> <<>>]

TokenData(client_id, employee_id) ==
    [ok |-> TRUE, client_id |-> client_id, employee_id |-> employee_id]

\* the except JWTError clause: the error code by the text of the exception
JwtErrorCode(prefix, error) ==
    IF error = "expired" THEN prefix \o "TOKEN_EXPIRED" ELSE prefix \o "TOKEN_INVALID"

\* "client_id is None or token_type == "user""
ClientTokenRejected(sub, token_type) ==
    sub = NoClaim \/ token_type = "user"

\* "employee_id is None or token_type != "user""
UserTokenRejected(sub, token_type) ==
    sub = NoClaim \/ token_type # "user"

\* a check that looks only at whether the query answers
ValidateEmployeeExistsAnyFlag(e, employee_id) == e.store_up

\* UserService.validate_employee_exists: the employee is in EMPLOYEE_MASTER with
\* ACTIVE = 'Y'; a failing query counts as not found
ValidateEmployeeExists(e, employee_id) ==
    e.store_up /\ employee_id \in e.active

\* verify_client_token
VerifyClientToken(token) ==
    LET payload == JwtDecode(token)
    IN  IF ~payload.ok THEN AuthenticationError(JwtErrorCode("CLIENT_", payload.error))
        ELSE IF ClientTokenRejected(payload.sub, TokenType(payload))
        THEN AuthenticationError("INVALID_CLIENT_TOKEN")
        ELSE TokenData(payload.sub, NoId)

\* verify_user_token
VerifyUserToken(token, e) ==
    LET payload == JwtDecode(token)
    IN  IF ~payload.ok THEN AuthenticationError(JwtErrorCode("USER_", payload.error))
        ELSE IF UserTokenRejected(payload.sub, TokenType(payload))
        THEN AuthenticationError("INVALID_USER_TOKEN")
        ELSE IF ~ValidateEmployeeExists(e, payload.sub)
        THEN AuthenticationError("USER_NOT_FOUND")
        ELSE TokenData(NoId, payload.sub)

\* verify_any_token
VerifyAnyToken(token, e) ==
    LET payload == JwtDecode(token)
    IN  IF ~payload.ok THEN AuthenticationError(JwtErrorCode("", payload.error))
        ELSE IF payload.sub = NoClaim
        THEN AuthenticationError("INVALID_TOKEN_STRUCTURE")
        ELSE IF TokenType(payload) = "user"
        THEN IF ~ValidateEmployeeExists(e, payload.sub)
             THEN AuthenticationError("USER_NOT_FOUND")
             ELSE TokenData(NoId, payload.sub)
        ELSE TokenData(payload.sub, NoId)

----------------------------------------------------------------------------
(* The token dependencies applied to drawn tokens *)

\* the stores behind the gateway: the authorization table, the employee table,
\* and whether the database answers
Envs ==
    [authorized : {[c \in {"c1"} |-> {"Z_ORDER", "Z_NOMETA"}]},
     active : {{}, {"e1"}},
     store_up : BOOLEAN]

InitToken ==
    /\ now = 0
    /\ env \in Envs
    /\ arg = [fn |-> "none"]
    /\ ret = NotCalled
    /\ limits = [e \in Endpoints |-> [max_requests |-> 1, window_seconds |-> 1]]
    /\ buckets = [k \in Keys |-> NoBucket]
    /\ last = NoCall
    /\ run = [k \in Keys |-> <<>>]
    /\ pc = <<>>
    /\ lock = NoThread
    /\ local = <<>>
    /\ admitted = 0
    /\ purged = 0

TokTick ==
    /\ now < MaxTime
    /\ now' = now + 1
    /\ UNCHANGED <<limits, buckets, last, run, thVars, fnVars>>

\* a request through Depends(verify_client_token)
TokVerifyClient(token) ==
    /\ arg' = [fn |-> "verify_client_token", token |-> token, at |-> NowSeconds]
    /\ ret' = Result(VerifyClientToken(token))
    /\ UNCHANGED <<env, rlVars, thVars>>

\* a request through Depends(verify_user_token)
TokVerifyUser(token) ==
    /\ arg' = [fn |-> "verify_user_token", token |-> token, at |-> NowSeconds]
    /\ ret' = Result(VerifyUserToken(token, env))
    /\ UNCHANGED <<env, rlVars, thVars>>

\* a request through Depends(verify_any_token)
TokVerifyAny(token) ==
    /\ arg' = [fn |-> "verify_any_token", token |-> token, at |-> NowSeconds]
    /\ ret' = Result(VerifyAnyToken(token, env))
    /\ UNCHANGED <<env, rlVars, thVars>>

\* an administrator sets an employee's ACTIVE flag to 'N'
TokDeactivate(employee_id) ==
    /\ employee_id \in env.active
    /\ env' = [env EXCEPT !.active = @ \ {employee_id}]
    /\ UNCHANGED <<arg, ret, rlVars, thVars>>

NextToken ==
    \/ TokTick
    \/ \E token \in Tokens : TokVerifyClient(token)
    \/ \E token \in Tokens : TokVerifyUser(token)
    \/ \E token \in Tokens : TokVerifyAny(token)
    \/ \E employee_id \in {"e1"} : TokDeactivate(employee_id)

SpecToken == InitToken /\ [][NextToken]_vars

\* C2: for a validly signed, unexpired token, verify_client_token accepts only a
\* type claim of "client" (or none), verify_user_token accepts only "user", and a
\* token of any other type is rejected with 401.
C2_TypeDiscrimination ==
    (ret.called /\ arg.fn \in {"verify_client_token", "verify_user_token"}
       /\ arg.token.signed /\ arg.token.exp >= arg.at)
    => LET expected == IF arg.fn = "verify_client_token" THEN "client" ELSE "user"
           decoded == IF arg.token.type = NoClaim THEN "client" ELSE arg.token.type
       IN  /\ ret.result.ok => decoded = expected
           /\ decoded # expected => (~ret.result.ok /\ ret.result.status = 401)

----------------------------------------------------------------------------
(* The SAP call pipeline: app/api/v1/sap.py, app/api/routes.py,               *)
(* app/services/sap_service.py, app/services/auth_service.py                  *)

\* the functions is_function_authorized lets every client call
BypassFunctions == {"ZMAST_CUSTOMER", "Z_GET_MATERIALS", "ZMAST_BOM"}

\* AuthService.get_authorized_functions: the names the store lists for the client
AuthorizedFunctions(e, client_id) ==
    IF client_id \in DOMAIN e.authorized THEN e.authorized[client_id] ELSE {}

\* an authorization check that lets the call through when the store lookup raises
IsFunctionAuthorizedOpenOnError(e, client_id, function_name) ==
    \/ function_name \in BypassFunctions
    \/ ~e.store_up
    \/ function_name \in AuthorizedFunctions(e, client_id)

\* an authorization check that lets every function through
IsFunctionAuthorizedAlways(e, client_id, function_name) == TRUE

\* AuthService.is_function_authorized: the bypass list, then the store; a failing
\* store lookup is caught and answers False
IsFunctionAuthorized(e, client_id, function_name) ==
    \/ function_name \in BypassFunctions
    \/ (e.store_up /\ function_name \in AuthorizedFunctions(e, client_id))

\* an output schema declaring the message table RETURN with TYPE and MESSAGE
ReturnSchema ==
    JDict(<<"TYPE", "MESSAGE">>, <<JStr(<<>>), JStr(<<>>)>>)

\* one declared table: {"fields": {name: descriptor, ...}}
TableMeta(names, required) ==
    JDict(<<"fields">>,
          << JDict(names, [i \in 1..Len(names) |-> MLeaf(required[i])]) >>)

\* The metadata documents of the model, by function name. ZMAST_CUSTOMER declares
\* the input I_DATE and the table T_ITEMS with the required field MATNR; Z_ORDER
\* and Z_SECRET declare a required input QTY, a required input B nested in G, the
\* table T_ITEMS (MATNR required, TEXT optional) and the table T_NOTES (TEXT
\* required); Z_NOMETA has no document.
MetadataDocuments ==
    [f \in {"ZMAST_CUSTOMER", "Z_ORDER", "Z_SECRET"} |->
        IF f = "ZMAST_CUSTOMER"
        THEN JDict(<<"input_parameters", "table_parameters", "output_parameters">>,
                   << JDict(<<"I_DATE">>, <<MLeaf(FALSE)>>),
                      JDict(<<"T_ITEMS">>, <<TableMeta(<<"MATNR">>, <<TRUE>>)>>),
                      JDict(<<"RETURN">>, <<ReturnSchema>>) >>)
        ELSE JDict(<<"input_parameters", "table_parameters", "output_parameters">>,
                   << JDict(<<"QTY", "G">>,
                            <<MLeaf(TRUE), JDict(<<"B">>, <<MLeaf(TRUE)>>)>>),
                      JDict(<<"T_ITEMS", "T_NOTES">>,
                            << TableMeta(<<"MATNR", "TEXT">>, <<TRUE, FALSE>>),
                               TableMeta(<<"TEXT">>, <<TRUE>>) >>),
                      JDict(<<"RETURN", "E_NUM">>, <<ReturnSchema, JStr(<<>>)>>) >>)]

FunctionNames == {"ZMAST_CUSTOMER", "Z_ORDER", "Z_SECRET", "Z_NOMETA"}

\* load_function_metadata(function_name): the 404 it raises for a missing file is
\* raised inside its own try block, whose "except Exception" turns it into a 500
LoadFunctionMetadata(function_name) ==
    IF function_name \notin DOMAIN MetadataDocuments
    THEN HttpError(500, "metadata_load_failed", <<>>)
    ELSE [ok |-> TRUE, metadata |-> MetadataDocuments[function_name]]

\* the legacy handler's open() and json.load(): FileNotFoundError becomes a 404
LoadLegacyMetadata(function_name) ==
    IF function_name \notin DOMAIN MetadataDocuments
    THEN HttpError(404, "metadata_not_found", <<>>)
    ELSE [ok |-> TRUE, metadata |-> MetadataDocuments[function_name]]

\* What the SAP system does with a call: it cannot be reached, it rejects the call,
\* or it answers with a result tree
SapOutcomes ==
    { [kind |-> "unreachable"], [kind |-> "rejected"],
      [kind |-> "answered",
       data |-> JDict(<<"RETURN", "EXTRA">>,
                      << JList(<< JDict(<<"TYPE", "MESSAGE">>,
                                        <<JStr(<<"S">>), JStr(<<"o", "k">>)>>) >>),
                         JStr(<<"x">>) >>)],
      [kind |-> "answered",
       data |-> JDict(<<"RETURN", "E_NUM">>,
                      << JList(<< JDict(<<"TYPE">>, <<JStr(<<"S">>)>>),
                                  JDict(<<"TYPE", "MESSAGE">>,
                                        <<JStr(<<"E">>), JStr(<<"n", "o">>)>>) >>),
                         JStr(<<"4", "2">>) >>)],
      [kind |-> "answered", data |-> JEmptyDict] }

\* call_bapi(bapi_name, params): connect, call, close; any exception becomes
\* {"status": "error", "message": str(e)}
CallBapi(bapi_name, params, sap) ==
    IF sap.kind = "answered"
    THEN [status |-> "success", data |-> sap.data]
    ELSE [status |-> "error", message |-> sap.kind]

\* a row copied as the remote system returned it
FilterRowVerbatim(entry, value) == entry

\* a row whose copied values are each wrapped in a one-element list
FilterRowWrapping(entry, value) ==
    JDict(value.keys,
          [i \in 1..Len(value.keys) |->
              JList(<<GetOr(entry, value.keys[i], JStr(<<>>))>>)])

\* one projected row of filter_sap_response: the declared sub-fields of the entry,
\* "" for the ones it lacks
FilterRow(entry, value) ==
    JDict(value.keys,
          [i \in 1..Len(value.keys) |-> GetOr(entry, value.keys[i], JStr(<<>>))])

\* filter_sap_response(raw_response, metadata) of app/api/v1/sap.py
FilterSapResponse(raw_response, metadata) ==
    LET output_parameters == GetOr(metadata, "output_parameters", JEmptyDict)
        IsTable(i) ==
            /\ output_parameters.vals[i].kind = "dict"
            /\ Get(raw_response, output_parameters.keys[i]).kind = "list"
        Visit[i \in 0..Len(output_parameters.keys)] ==
            IF i = 0 THEN JEmptyDict
            ELSE LET key == output_parameters.keys[i]
                     value == output_parameters.vals[i]
                 IN  IF ~HasKey(raw_response, key) THEN Visit[i - 1]
                     ELSE IF IsTable(i)
                     THEN Put(Visit[i - 1], key,
                              JList([r \in 1..Len(Get(raw_response, key).items) |->
                                        FilterRow(Get(raw_response, key).items[r],
                                                  value)]))
                     ELSE Put(Visit[i - 1], key, Get(raw_response, key))
    IN  IF \E i \in 1..Len(output_parameters.keys) :
               /\ HasKey(raw_response, output_parameters.keys[i])
               /\ IsTable(i)
               /\ \E r \in 1..Len(Get(raw_response, output_parameters.keys[i]).items) :
                      Get(raw_response, output_parameters.keys[i]).items[r].kind # "dict"
        THEN OtherError("AttributeError")      \* entry.get on a row that is no dict
        ELSE [ok |-> TRUE, data |-> Visit[Len(output_parameters.keys)]]

\* filter_sap_response of app/api/routes.py: every declared key is emitted
FilterSapResponseLegacy(raw_response, metadata) ==
    LET output_parameters == GetOr(metadata, "output_parameters", JEmptyDict)
        IsTable(i) ==
            /\ output_parameters.vals[i].kind = "dict"
            /\ HasKey(raw_response, output_parameters.keys[i])
            /\ Get(raw_response, output_parameters.keys[i]).kind = "list"
        Visit[i \in 0..Len(output_parameters.keys)] ==
            IF i = 0 THEN JEmptyDict
            ELSE LET key == output_parameters.keys[i]
                     value == output_parameters.vals[i]
                 IN  IF IsTable(i)
                     THEN Put(Visit[i - 1], key,
                              JList([r \in 1..Len(Get(raw_response, key).items) |->
                                        FilterRow(Get(raw_response, key).items[r],
                                                  value)]))
                     ELSE Put(Visit[i - 1], key, GetOr(raw_response, key, JStr(<<>>)))
    IN  IF \E i \in 1..Len(output_parameters.keys) :
               /\ IsTable(i)
               /\ \E r \in 1..Len(Get(raw_response, output_parameters.keys[i]).items) :
                      Get(raw_response, output_parameters.keys[i]).items[r].kind # "dict"
        THEN OtherError("AttributeError")
        ELSE [ok |-> TRUE, data |-> Visit[Len(output_parameters.keys)]]

\* a classification that reports an error only when no row is a success row
ErrorFoundEveryRow(filtered_response) ==
    LET return_messages == GetOr(filtered_response, "RETURN", JList(<<>>))
    IN  /\ return_messages.kind = "list"
        /\ return_messages.items # <<>>
        /\ \A i \in 1..Len(return_messages.items) :
              GetOr(return_messages.items[i], "TYPE", JNull) # JStr(<<"S">>)

\* lines 242-243: any(entry.get("TYPE") != "S" for entry in return_messages if
\* isinstance(entry, dict)); the RETURN values of the model are lists or absent
ErrorFound(filtered_response) ==
    LET return_messages == GetOr(filtered_response, "RETURN", JList(<<>>))
    IN  /\ return_messages.kind = "list"
        /\ \E i \in 1..Len(return_messages.items) :
              /\ return_messages.items[i].kind = "dict"
              /\ GetOr(return_messages.items[i], "TYPE", JNull) # JStr(<<"S">>)

RECURSIVE ExtractRequiredFieldsLegacy(_, _)
\* extract_required_fields of app/api/routes.py: a dict with a "required" key is a
\* leaf, listed when the flag is true; any other dict is descended
ExtractRequiredFieldsLegacy(parameters, parent_key) ==
    LET Visit[i \in 0..Len(parameters.keys)] ==
            IF i = 0 THEN <<>>
            ELSE LET value == parameters.vals[i]
                     current_key == Append(parent_key, parameters.keys[i])
                 IN  Visit[i - 1] \o
                     (IF value.kind = "dict" /\ HasKey(value, "required")
                      THEN IF Truthy(Get(value, "required")) THEN <<current_key>>
                           ELSE <<>>
                      ELSE IF value.kind = "dict"
                           THEN ExtractRequiredFieldsLegacy(value, current_key)
                           ELSE <<>>)
    IN  Visit[Len(parameters.keys)]

\* SAPFunctionRequest.validate_parameters: None becomes {}, a dict is kept, a list
\* is wrapped as {"array_data": v}, any other value as {"data": v} (a request whose
\* parameters is a string is not drawn)
ValidateParametersField(v) ==
    CASE v.kind = "null" -> JEmptyDict
      [] v.kind = "dict" -> v
      [] v.kind = "list" -> JDict(<<"array_data">>, <<v>>)
      [] OTHER -> JDict(<<"data">>, <<v>>)

NoBody == [status |-> "", sap_response |-> JNull]

\* an HTTP response, with what the handler did on the way: the steps it completed
\* and the arguments of each remote invocation
Response(status, what, items, steps, sent, body) ==
    [status |-> status, what |-> what, items |-> items, steps |-> steps,
     sent |-> sent, body |-> body]

\* the response for an exception r raised at some step of call_sap_function: an
\* HTTPException is re-raised as it is, anything else becomes a 500
V1Raise(r, steps, sent) ==
    IF r.status = 0
    THEN Response(500, "internal_error", <<r.what>>, steps, sent, NoBody)
    ELSE Response(r.status, r.what, r.items, steps, sent, NoBody)

\* lines 238-252 of call_sap_function: filter, classify, respond
V1Classify(raw, metadata, steps, sent) ==
    LET filtered == FilterSapResponse(raw, metadata)
    IN  IF ~filtered.ok THEN V1Raise(filtered, steps, sent)
        ELSE Response(200, "ok", <<>>, Append(steps, "classified"), sent,
                      [status |-> IF ErrorFound(filtered.data) THEN "error"
                                  ELSE "success",
                       sap_response |-> filtered.data])

\* lines 224-236 of call_sap_function: load the metadata, validate, prepare, call
V1Pipeline(function_name, parameters, sap, steps) ==
    LET loaded == LoadFunctionMetadata(function_name)
        metadata == loaded.metadata
        inputs == ValidateInputParameters(parameters, metadata)
        tables == ValidateTableParameters(parameters, metadata)
        sap_data == PrepareSapData(parameters, metadata)
        sap_response == CallBapi(function_name, sap_data.data, sap)
        validated == steps \o <<"metadata_loaded", "validated">>
        invoked == validated \o <<"prepared", "remote_invoked">>
    IN  IF ~loaded.ok THEN V1Raise(loaded, steps, <<>>)
        ELSE IF ~inputs.ok THEN V1Raise(inputs, Append(steps, "metadata_loaded"), <<>>)
        ELSE IF ~tables.ok THEN V1Raise(tables, Append(steps, "metadata_loaded"), <<>>)
        ELSE IF ~sap_data.ok THEN V1Raise(sap_data, validated, <<>>)
        ELSE IF sap_response.status = "error"
        THEN Response(500, "remote_error", <<sap_response.message>>, invoked,
                      <<sap_data.data>>, NoBody)
        ELSE V1Classify(sap_response.data, metadata, invoked, <<sap_data.data>>)

\* POST /api/v1/sap/call-function: Depends(verify_client_token), then
\* call_sap_function
V1CallSapFunction(token, function_name, raw_parameters, sap, e) ==
    LET current_user == VerifyClientToken(token)
        parameters == ValidateParametersField(raw_parameters)
    IN  IF ~current_user.ok
        THEN Response(401, current_user.what, <<>>, <<>>, <<>>, NoBody)
        ELSE IF ~IsFunctionAuthorized(e, current_user.client_id, function_name)
        THEN Response(403, "not_authorized", <<>>, <<"token_verified">>, <<>>, NoBody)
        ELSE V1Pipeline(function_name, parameters, sap,
                        <<"token_verified", "authorized">>)

\* lines 60-64 of call_function_api: the required fields of one table whose value in
\* the request's fields is falsy or absent ("not fields.get(field)")
LegacyMissingFields(fields, required_fields) ==
    LET Visit[i \in 0..Len(required_fields)] ==
            IF i = 0 THEN <<>>
            ELSE IF ~Truthy(GetOr(fields, required_fields[i], JNull))
                 THEN Append(Visit[i - 1], required_fields[i])
                 ELSE Visit[i - 1]
    IN  Visit[Len(required_fields)]

RECURSIVE LegacyValidateTablesFrom(_, _, _)
\* the table loop of call_function_api from the i-th declared table on
LegacyValidateTablesFrom(i, table_parameters_meta, request_tables) ==
    IF i > Len(table_parameters_meta.keys) THEN Passed
    ELSE LET table_name == table_parameters_meta.keys[i]
             table_meta == table_parameters_meta.vals[i]
         IN  IF ~HasKey(request_tables, table_name)
             THEN HttpError(400, "missing_table", <<table_name>>)
             ELSE IF Get(request_tables, table_name).kind # "dict"
             THEN OtherError("AttributeError")
             ELSE LET fields == GetOr(Get(request_tables, table_name), "fields",
                                      JEmptyDict)
                      missing_fields ==
                          LegacyMissingFields(fields, RequiredTableFields(table_meta))
                  IN  IF ~Truthy(fields)
                      THEN HttpError(400, "no_fields", <<table_name>>)
                      ELSE IF fields.kind # "dict"
                      THEN OtherError("AttributeError")     \* fields.get
                      ELSE IF missing_fields # <<>>
                      THEN HttpError(400, "missing_table_fields",
                                     <<table_name>> \o missing_fields)
                      ELSE LegacyValidateTablesFrom(i + 1, table_parameters_meta,
                                                    request_tables)

\* lines 26-69 of call_function_api: the checks made before the data is prepared
LegacyValidate(parameters, metadata) ==
    LET required_inputs ==
            ExtractRequiredFieldsLegacy(Get(metadata, "input_parameters"), <<>>)
        input == Get(parameters, "input")
        found == [i \in 1..Len(required_inputs) |->
                     ExtractNestedValue(input, required_inputs[i], FieldChars)]
        Missing[i \in 0..Len(required_inputs)] ==
            IF i = 0 THEN <<>>
            ELSE IF ~Truthy(found[i].value)
                 THEN Append(Missing[i - 1], required_inputs[i])
                 ELSE Missing[i - 1]
        missing_inputs == Missing[Len(required_inputs)]
        request_tables == GetOr(parameters, "tables", JEmptyDict)
    IN  IF ~HasKey(parameters, "input") THEN OtherError("KeyError")
        ELSE IF \E i \in 1..Len(required_inputs) : found[i].raised
        THEN OtherError("TypeError")
        ELSE IF missing_inputs # <<>>
        THEN HttpError(400, "missing_inputs", missing_inputs)
        ELSE IF ~Truthy(request_tables)
        THEN HttpError(400, "tables_missing", <<>>)
        ELSE LegacyValidateTablesFrom(1, Get(metadata, "table_parameters"),
                                      request_tables)

\* prepare_sap_data of app/api/routes.py: every declared input key, None for the
\* ones the request lacks; each table's fields, which must be a dict, as one row
PrepareSapDataLegacy(parameters, metadata) ==
    LET input == GetOr(parameters, "input", JEmptyDict)
        declared == GetOr(metadata, "input_parameters", JEmptyDict)
        tables_meta == GetOr(metadata, "table_parameters", JEmptyDict)
        tables == GetOr(parameters, "tables", JEmptyDict)
        input_parameters ==
            JDict(declared.keys,
                  [i \in 1..Len(declared.keys) |-> GetOr(input, declared.keys[i], JNull)])
        Tables[i \in 0..Len(tables_meta.keys)] ==
            IF i = 0 THEN input_parameters
            ELSE LET table_name == tables_meta.keys[i]
                 IN  IF HasKey(tables, table_name)
                     THEN Put(Tables[i - 1], table_name,
                              JList(<<GetOr(Get(tables, table_name), "fields",
                                            JEmptyDict)>>))
                     ELSE Tables[i - 1]
    IN  IF parameters.kind # "dict" THEN OtherError("ValueError")
        ELSE IF \E i \in 1..Len(tables_meta.keys) :
                    /\ HasKey(tables, tables_meta.keys[i])
                    /\ Get(tables, tables_meta.keys[i]).kind # "dict"
        THEN OtherError("AttributeError")
        ELSE IF \E i \in 1..Len(tables_meta.keys) :
                    /\ HasKey(tables, tables_meta.keys[i])
                    /\ GetOr(Get(tables, tables_meta.keys[i]), "fields",
                             JEmptyDict).kind # "dict"
        THEN OtherError("ValueError")
        ELSE [ok |-> TRUE, data |-> Tables[Len(tables_meta.keys)]]

\* line 89 of call_function_api: any(entry["TYPE"] != "S" for entry in
\* filtered_response.get("RETURN", [])); a filtered RETURN is a list of rows that
\* carry every declared sub-field, or the empty string
ErrorFoundLegacy(filtered_response) ==
    LET return_messages == GetOr(filtered_response, "RETURN", JList(<<>>))
    IN  /\ return_messages.kind = "list"
        /\ \E i \in 1..Len(return_messages.items) :
              Get(return_messages.items[i], "TYPE") # JStr(<<"S">>)

\* the response for an exception r raised inside the try block of
\* call_function_api: its last clause, "except Exception", also catches the
\* HTTPExceptions the block raises and answers 500 with their text
LegacyRaise(r, steps, sent) ==
    Response(500, "internal_error", <<r.what>> \o r.items, steps, sent, NoBody)

\* lines 71-100 of call_function_api: prepare, call, filter, classify, respond
LegacyPipeline(function_name, parameters, metadata, sap) ==
    LET sap_data == PrepareSapDataLegacy(parameters, metadata)
        sap_response == CallBapi(function_name, sap_data.data, sap)
        filtered == FilterSapResponseLegacy(sap_response.data, metadata)
        validated == <<"metadata_loaded", "validated">>
        invoked == validated \o <<"prepared", "remote_invoked">>
    IN  IF ~sap_data.ok THEN LegacyRaise(sap_data, validated, <<>>)
        ELSE IF sap_response.status = "error"
        THEN LegacyRaise(HttpError(500, "remote_error", <<sap_response.message>>),
                         invoked, <<sap_data.data>>)
        ELSE IF ~filtered.ok THEN LegacyRaise(filtered, invoked, <<sap_data.data>>)
        ELSE Response(200, "ok", <<>>, Append(invoked, "classified"),
                      <<sap_data.data>>,
                      [status |-> IF ErrorFoundLegacy(filtered.data) THEN "error"
                                  ELSE "success",
                       sap_response |-> filtered.data])

\* the body model CallFunctionRequest accepts parameters: Dict[str, Dict[str, Any]]
LegacyParametersAccepted(raw_parameters) ==
    /\ raw_parameters.kind = "dict"
    /\ \A i \in 1..Len(raw_parameters.vals) : raw_parameters.vals[i].kind = "dict"

\* POST /api/sap/call-function: call_function_api, registered with no dependency
LegacyCallFunction(function_name, raw_parameters, sap) ==
    LET loaded == LoadLegacyMetadata(function_name)
        checked == LegacyValidate(raw_parameters, loaded.metadata)
    IN  IF ~LegacyParametersAccepted(raw_parameters)
        THEN Response(422, "unprocessable", <<>>, <<>>, <<>>, NoBody)
        ELSE IF ~loaded.ok
        THEN Response(404, loaded.what, <<>>, <<>>, <<>>, NoBody)
        ELSE IF ~checked.ok THEN LegacyRaise(checked, <<"metadata_loaded">>, <<>>)
        ELSE LegacyPipeline(function_name, raw_parameters, loaded.metadata, sap)

----------------------------------------------------------------------------
(* The two call-function endpoints, one request at a time                     *)
(*                                                                            *)
(* arg is the request being answered, ret the response with the steps the     *)
(* handler completed and the arguments of every remote invocation it made.    *)
(* The handlers share no state, so requests are taken one after the other.    *)

\* the bearer tokens a request carries
HttpTokens ==
    { t \in Tokens :
        \/ t.signed /\ t.sub = "c1"
        \/ t.signed /\ t.exp = 5 /\ t.sub = NoClaim /\ t.type = "client"
        \/ ~t.signed /\ t.exp = 5 /\ t.sub = "c1" /\ t.type = "client" }

Absent == [kind |-> "absent"]

Fields(v) == JDict(<<"fields">>, <<v>>)

\* the "input" subtree of a request, when it has one
InputChoices ==
    { Absent,
      JEmptyDict,
      JDict(<<"I_DATE">>, <<JStr(<<"1", ".", "2", ".", "3">>)>>),
      JDict(<<"QTY">>, <<JNum(7)>>),
      JDict(<<"QTY", "G">>, <<JNum(7), JDict(<<"B">>, <<JStr(<<"x">>)>>)>>) }

\* the entry of the request's "tables" for T_ITEMS, when it has one
ItemsChoices ==
    { Absent,
      JEmptyDict,
      JStr(<<"a", "b">>),
      Fields(JDict(<<"MATNR">>, <<JStr(<<"1">>)>>)),
      Fields(JDict(<<"TEXT">>, <<JStr(<<"x">>)>>)),
      Fields(JList(<< JDict(<<"MATNR">>, <<JStr(<<"1">>)>>),
                      JDict(<<"TEXT">>, <<JStr(<<"x">>)>>) >>)),
      Fields(JList(<< JDict(<<"MATNR">>, <<JStr(<<"1">>)>>) >>)),
      Fields(JList(<< JStr(<<"a", "b">>) >>)),
      Fields(JList(<< JNum(5) >>)),
      Fields(JStr(<<"a", "b">>)),
      Fields(JNum(5)) }

\* the entry of the request's "tables" for T_NOTES, when it has one
NotesChoices ==
    { Absent,
      Fields(JDict(<<"TEXT">>, <<JStr(<<"x">>)>>)),
      Fields(JDict(<<"MATNR">>, <<JStr(<<"1">>)>>)),
      Fields(JStr(<<"a", "b">>)) }

PutIfPresent(d, key, v) == IF v = Absent THEN d ELSE Put(d, key, v)

\* the parameter tree {"input": .., "tables": {"T_ITEMS": .., "T_NOTES": ..}}
ParameterTree(input, items, notes) ==
    LET tables == PutIfPresent(PutIfPresent(JEmptyDict, "T_ITEMS", items),
                               "T_NOTES", notes)
    IN  PutIfPresent(PutIfPresent(JEmptyDict, "input", input), "tables",
                     IF tables = JEmptyDict THEN Absent ELSE tables)

ParameterTrees ==
    {JNull} \cup { ParameterTree(i, t, n) :
                     i \in InputChoices, t \in ItemsChoices, n \in NotesChoices }

HttpEnvs == { e \in Envs : e.active = {} }

InitHttp ==
    /\ now = 0
    /\ env \in HttpEnvs
    /\ arg = "none"
    /\ ret = NotCalled
    /\ limits = [e \in Endpoints |-> [max_requests |-> 1, window_seconds |-> 1]]
    /\ buckets = [k \in Keys |-> NoBucket]
    /\ last = NoCall
    /\ run = [k \in Keys |-> <<>>]
    /\ pc = <<>>
    /\ lock = NoThread
    /\ local = <<>>
    /\ admitted = 0
    /\ purged = 0

\* the clock advances between two requests
HttpTick ==
    /\ ~ret.called
    /\ now < TicksPerSecond
    /\ now' = now + 1
    /\ UNCHANGED <<limits, buckets, last, run, thVars, fnVars>>

\* one request to POST /api/v1/sap/call-function, answered
HttpV1(token, function_name, parameters, sap) ==
    /\ arg' = [fn |-> "v1", token |-> token, function_name |-> function_name,
               parameters |-> parameters, sap |-> sap, at |-> NowSeconds]
    /\ ret' = Result(V1CallSapFunction(token, function_name, parameters, sap, env))
    /\ UNCHANGED <<rlVars, thVars, env>>

\* one request to POST /api/sap/call-function, answered
HttpLegacy(function_name, parameters, sap) ==
    /\ arg' = [fn |-> "legacy", function_name |-> function_name,
               parameters |-> parameters, sap |-> sap, at |-> NowSeconds]
    /\ ret' = Result(LegacyCallFunction(function_name, parameters, sap))
    /\ UNCHANGED <<rlVars, thVars, env>>

\* the response is sent; the handlers keep nothing from one request to the next
HttpRespond ==
    /\ ret.called
    /\ arg' = "none"
    /\ ret' = NotCalled
    /\ UNCHANGED <<rlVars, thVars, env>>

\* a request to the v1 endpoint arrives when the previous one has been answered
HttpV1Request ==
    /\ ~ret.called
    /\ \E token \in HttpTokens, function_name \in FunctionNames,
          parameters \in ParameterTrees, sap \in SapOutcomes :
           HttpV1(token, function_name, parameters, sap)

\* a request to the legacy endpoint arrives when the previous one has been answered
HttpLegacyRequest ==
    /\ ~ret.called
    /\ \E function_name \in FunctionNames, parameters \in ParameterTrees,
          sap \in SapOutcomes :
           HttpLegacy(function_name, parameters, sap)

NextHttp ==
    \/ HttpTick
    \/ HttpV1Request
    \/ HttpLegacyRequest
    \/ HttpRespond

SpecHttp == InitHttp /\ [][NextHttp]_vars

\* the positions of a step in the steps a handler completed
Positions(steps, name) == { i \in 1..Len(steps) : steps[i] = name }

\* C1: on both call-function endpoints the remote function is invoked only after,
\* in the same request, a bearer token was verified and the authorization check for
\* that identity and function succeeded, in that order; a request that fails before
\* that ends with an error and no remote invocation; and the remote function is
\* invoked at most once per request.
C1_RemoteOnlyAfterAuthorization ==
    ret.called
    => LET r == ret.result
           invoked == Positions(r.steps, "remote_invoked")
       IN  /\ Cardinality(invoked) <= 1
           /\ Len(r.sent) = Cardinality(invoked)
           /\ \A i \in invoked :
                \E j, k \in 1..Len(r.steps) :
                    /\ j < k /\ k < i
                    /\ r.steps[j] = "token_verified"
                    /\ r.steps[k] = "authorized"
           /\ Positions(r.steps, "authorized") = {} => (invoked = {} /\ r.status # 200)

\* the request of arg as call_sap_function receives it, and the metadata it loads
RequestParameters == ValidateParametersField(arg.parameters)
RequestMetadata == MetadataDocuments[arg.function_name]

\* a v1 request that got as far as validation
V1Validated ==
    /\ ret.called
    /\ arg.fn = "v1"
    /\ Positions(ret.result.steps, "metadata_loaded") # {}

\* a table's fields value that is a mapping or a sequence of mappings
FieldsWellShaped(fields) ==
    \/ fields.kind = "dict"
    \/ fields.kind = "list" /\ \A i \in 1..Len(fields.items) : fields.items[i].kind = "dict"

\* the declared tables of the request whose entry is not a mapping, or whose fields
\* value is neither a mapping nor a sequence of mappings
MalformedTables(parameters, metadata) ==
    LET declared == Get(metadata, "table_parameters")
        tables == GetOr(parameters, "tables", JEmptyDict)
    IN  { i \in 1..Len(declared.keys) :
            /\ HasKey(tables, declared.keys[i])
            /\ LET entry == Get(tables, declared.keys[i])
               IN  \/ entry.kind # "dict"
                   \/ /\ HasKey(entry, "fields")
                      /\ ~FieldsWellShaped(Get(entry, "fields")) }

\* every required item the request lacks: required input paths that do not resolve
\* to a value other than None and "", declared tables that are absent, declared
\* tables without fields, required fields that a row of a table lacks
AllMissing(parameters, metadata) ==
    LET required == ExtractRequiredFields(Get(metadata, "input_parameters"), <<>>)
        input == GetOr(parameters, "input", JEmptyDict)
        declared == Get(metadata, "table_parameters")
        tables == GetOr(parameters, "tables", JEmptyDict)
        FieldsOf(t) == GetOr(Get(tables, t), "fields", JEmptyDict)
        Rows(t) == IF FieldsOf(t).kind = "dict" THEN <<FieldsOf(t)>>
                   ELSE FieldsOf(t).items
    IN  { <<"input", required[i]>> :
            i \in { n \in 1..Len(required) : ~ResolvesNonEmpty(input, required[n]) } }
        \cup
        { <<"table", declared.keys[i]>> :
            i \in { n \in 1..Len(declared.keys) : ~HasKey(tables, declared.keys[n]) } }
        \cup
        { <<"no_fields", declared.keys[i]>> :
            i \in { n \in 1..Len(declared.keys) :
                      /\ HasKey(tables, declared.keys[n])
                      /\ ~Truthy(FieldsOf(declared.keys[n])) } }
        \cup
        UNION { { <<"field", declared.keys[i], f>> :
                    f \in { g \in DOMAIN FieldChars :
                              /\ \E n \in 1..Len(RequiredTableFields(declared.vals[i])) :
                                     RequiredTableFields(declared.vals[i])[n] = g
                              /\ \E n \in 1..Len(Rows(declared.keys[i])) :
                                     ~HasKey(Rows(declared.keys[i])[n], g) } } :
                i \in { n \in 1..Len(declared.keys) :
                          /\ HasKey(tables, declared.keys[n])
                          /\ Truthy(FieldsOf(declared.keys[n])) } }

\* the missing items a 400 response names
Reported(r) ==
    CASE r.what = "missing_inputs" ->
            { <<"input", r.items[i]>> : i \in 1..Len(r.items) }
      [] r.what = "missing_table" -> { <<"table", r.items[1]>> }
      [] r.what = "no_fields" -> { <<"no_fields", r.items[1]>> }
      [] r.what = "missing_table_fields" ->
            { <<"field", r.items[1], r.items[i]>> : i \in 2..Len(r.items) }
      [] OTHER -> {}

\* C9: when a v1 call-function request of well-formed shape lacks several required
\* items (required input paths, declared tables, tables' fields, required table
\* fields), the 400 response names every one of them.
C9_CollectAllMissing ==
    (/\ V1Validated
     /\ MalformedTables(RequestParameters, RequestMetadata) = {}
     /\ ret.result.status = 400)
    => Reported(ret.result) = AllMissing(RequestParameters, RequestMetadata)

\* C10: a v1 call-function request in which a declared table's entry is not a
\* mapping, or its fields value is neither a mapping nor a sequence of mappings, is
\* answered 400 and the remote function is not invoked.
C10_MalformedShapeIs400 ==
    (V1Validated /\ MalformedTables(RequestParameters, RequestMetadata) # {})
    => (ret.result.status = 400 /\ ret.result.sent = <<>>)

----------------------------------------------------------------------------
(* filter_sap_response and prepare_sap_data applied to schemas, raw responses *)
(* and parameter trees                                                        *)

\* the longest RETURN table of a raw response
MaxRows == 2

\* the rows a remote RETURN table holds; the last one is not a mapping
RowChoices ==
    { JDict(<<"TYPE", "MESSAGE">>, <<JStr(<<"S">>), JStr(<<"o", "k">>)>>),
      JDict(<<"TYPE">>, <<JStr(<<"E">>)>>),
      JDict(<<"MESSAGE", "ID">>, <<JStr(<<"n", "o">>), JNum(7)>>),
      JEmptyDict,
      JStr(<<"S">>) }

\* what a raw response holds under RETURN, when it holds anything
RawReturnChoices ==
    { Absent, JStr(<<"x">>),
      JDict(<<"TYPE", "ID">>, <<JStr(<<"S">>), JNum(7)>>) }
    \cup { JList(rows) : rows \in UNION { [1..n -> RowChoices] : n \in 0..MaxRows } }

\* the raw responses of conn.call: RETURN, the declared scalar E_NUM and the
\* undeclared EXTRA, each present or not
RawResponses ==
    { PutIfPresent(PutIfPresent(PutIfPresent(JEmptyDict, "RETURN", r), "E_NUM", n),
                   "EXTRA", x) :
        r \in RawReturnChoices,
        n \in {Absent, JStr(<<"4", "2">>)},
        x \in {Absent, JStr(<<"x">>)} }

\* metadata documents by their output_parameters
OutputSchemas ==
    { JDict(<<"output_parameters">>, <<o>>) :
        o \in { JEmptyDict,
                JDict(<<"RETURN">>, <<ReturnSchema>>),
                JDict(<<"RETURN", "E_NUM">>, <<ReturnSchema, JStr(<<>>)>>),
                JDict(<<"E_NUM", "RETURN">>, <<JStr(<<>>), JStr(<<>>)>>) } }

\* parameter trees for prepare_sap_data: the request trees, and one whose input
\* holds a key no document declares
PrepareTrees ==
    (ParameterTrees \ {JNull})
    \cup { ParameterTree(JDict(<<"QTY", "ZZ">>, <<JNum(7), JStr(<<"x">>)>>), t, Absent) :
             t \in ItemsChoices }

NoPrevious == [called |-> FALSE]

InitProject ==
    /\ now = 0
    /\ env \in HttpEnvs
    /\ arg = "none"
    /\ ret = NotCalled
    /\ limits = [e \in Endpoints |-> [max_requests |-> 1, window_seconds |-> 1]]
    /\ buckets = [k \in Keys |-> NoBucket]
    /\ last = NoCall
    /\ run = [k \in Keys |-> <<>>]
    /\ pc = <<>>
    /\ lock = NoThread
    /\ local = <<>>
    /\ admitted = 0
    /\ purged = 0

\* filter_sap_response(raw_response, metadata) on a response of the remote system
ProjFilter(raw_response, metadata) ==
    /\ ~ret.called
    /\ arg' = [fn |-> "filter_sap_response", raw_response |-> raw_response,
               metadata |-> metadata, previous |-> NoPrevious]
    /\ ret' = Result(FilterSapResponse(raw_response, metadata))
    /\ UNCHANGED <<rlVars, thVars, env>>

\* filter_sap_response applied to what it returned, under the same metadata
ProjFilterAgain ==
    /\ ret.called
    /\ arg.fn = "filter_sap_response"
    /\ ~arg.previous.called
    /\ ret.result.ok
    /\ arg' = [fn |-> "filter_sap_response", raw_response |-> ret.result.data,
               metadata |-> arg.metadata, previous |-> Result(ret.result.data)]
    /\ ret' = Result(FilterSapResponse(ret.result.data, arg.metadata))
    /\ UNCHANGED <<rlVars, thVars, env>>

\* prepare_sap_data(parameters, metadata) on a request tree
ProjPrepare(parameters, metadata) ==
    /\ ~ret.called
    /\ arg' = [fn |-> "prepare_sap_data", parameters |-> parameters,
               metadata |-> metadata]
    /\ ret' = Result(PrepareSapData(parameters, metadata))
    /\ UNCHANGED <<rlVars, thVars, env>>

\* the result is handed back
ProjReturn ==
    /\ ret.called
    /\ arg' = "none"
    /\ ret' = NotCalled
    /\ UNCHANGED <<rlVars, thVars, env>>

NextProject ==
    \/ \E raw_response \in RawResponses, metadata \in OutputSchemas :
           ProjFilter(raw_response, metadata)
    \/ ProjFilterAgain
    \/ \E parameters \in PrepareTrees, f \in DOMAIN MetadataDocuments :
           ProjPrepare(parameters, MetadataDocuments[f])
    \/ ProjReturn

SpecProject == InitProject /\ [][NextProject]_vars

\* a call of filter_sap_response on a raw response that has returned a result
Filtered ==
    /\ ret.called
    /\ arg.fn = "filter_sap_response"
    /\ ret.result.ok

\* the output_parameters the call was given
DeclaredOutputs == GetOr(arg.metadata, "output_parameters", JEmptyDict)

\* the declared keys that are projected row by row: the schema value is a mapping
\* and the raw value a list
ProjectedTables ==
    { i \in 1..Len(DeclaredOutputs.keys) :
        /\ DeclaredOutputs.vals[i].kind = "dict"
        /\ HasKey(arg.raw_response, DeclaredOutputs.keys[i])
        /\ Get(arg.raw_response, DeclaredOutputs.keys[i]).kind = "list" }

\* C11: the result of filter_sap_response holds every declared output key, with the
\* empty string for a key the raw response lacks, and every projected row holds
\* every declared sub-field.
C11_CompleteOutputShape ==
    Filtered
    => /\ \A i \in 1..Len(DeclaredOutputs.keys) :
            LET key == DeclaredOutputs.keys[i]
            IN  /\ HasKey(ret.result.data, key)
                /\ ~HasKey(arg.raw_response, key)
                      => Get(ret.result.data, key) = JStr(<<>>)
       /\ \A i \in ProjectedTables :
            LET rows == Get(ret.result.data, DeclaredOutputs.keys[i]).items
            IN  \A r \in 1..Len(rows) :
                    \A k \in 1..Len(DeclaredOutputs.vals[i].keys) :
                        HasKey(rows[r], DeclaredOutputs.vals[i].keys[k])

Prepared ==
    /\ ret.called
    /\ arg.fn = "prepare_sap_data"
    /\ ret.result.ok

\* C13: every key of the result of prepare_sap_data is a declared input key present
\* in the request's input or a declared table present in the request's tables, and
\* every table entry of the result is a sequence.
C13_RequestAllowList ==
    Prepared
    => LET input == GetOr(arg.parameters, "input", JEmptyDict)
           tables == GetOr(arg.parameters, "tables", JEmptyDict)
           declared_inputs == GetOr(arg.metadata, "input_parameters", JEmptyDict)
           declared_tables == GetOr(arg.metadata, "table_parameters", JEmptyDict)
           data == ret.result.data
       IN  /\ \A j \in 1..Len(data.keys) :
                \/ HasKey(declared_inputs, data.keys[j]) /\ HasKey(input, data.keys[j])
                \/ HasKey(declared_tables, data.keys[j]) /\ HasKey(tables, data.keys[j])
           /\ \A i \in 1..Len(declared_tables.keys) :
                HasKey(tables, declared_tables.keys[i])
                => /\ HasKey(data, declared_tables.keys[i])
                   /\ Get(data, declared_tables.keys[i]).kind = "list"

\* C14: filter_sap_response applied to its own result under the same metadata
\* returns that result.
C14_FilterIdempotent ==
    (ret.called /\ arg.fn = "filter_sap_response" /\ arg.previous.called)
    => (ret.result.ok /\ ret.result.data = arg.previous.result)

\* the second application was made to the result of projecting a table whose rows
\* lacked a declared sub-field and carried an undeclared one
C14_Witness ==
    /\ ret.called
    /\ arg.fn = "filter_sap_response"
    /\ arg.previous.called
    /\ HasKey(DeclaredOutputs, "RETURN")
    /\ Get(DeclaredOutputs, "RETURN").kind = "dict"
    /\ HasKey(arg.previous.result, "RETURN")
    /\ Get(arg.previous.result, "RETURN").kind = "list"
    /\ \E r \in 1..Len(Get(arg.previous.result, "RETURN").items) :
          Get(Get(arg.previous.result, "RETURN").items[r], "TYPE") = JStr(<<>>)

----------------------------------------------------------------------------
(* Claims about the answers of the v1 call-function endpoint *)

\* a v1 call-function request whose bearer token was verified
V1Verified ==
    /\ ret.called
    /\ arg.fn = "v1"
    /\ Positions(ret.result.steps, "token_verified") # {}

\* the return-message rows of a filtered response
ReturnRows(filtered) ==
    IF HasKey(filtered, "RETURN") /\ Get(filtered, "RETURN").kind = "list"
    THEN Get(filtered, "RETURN").items
    ELSE <<>>

\* C15: after a successful remote call call_sap_function answers with status
\* "error" exactly when some row of the filtered RETURN has a TYPE other than "S",
\* "success" otherwise, and returns the whole filtered response either way.
C15_Classification ==
    (ret.called /\ arg.fn = "v1" /\ ret.result.status = 200)
    => LET rows == ReturnRows(ret.result.body.sap_response)
           failed == \E r \in 1..Len(rows) :
                         ~(HasKey(rows[r], "TYPE") /\ Get(rows[r], "TYPE") = JStr(<<"S">>))
       IN  /\ ret.result.body.status = IF failed THEN "error" ELSE "success"
           /\ ret.result.body.sap_response =
                 FilterSapResponse(arg.sap.data, RequestMetadata).data

\* an answer classified "error" although one of its rows is a success row
C15_Witness ==
    /\ ret.called
    /\ arg.fn = "v1"
    /\ ret.result.status = 200
    /\ ret.result.body.status = "error"
    /\ \E r \in 1..Len(ReturnRows(ret.result.body.sap_response)) :
          Get(ReturnRows(ret.result.body.sap_response)[r], "TYPE") = JStr(<<"S">>)

\* C16: a v1 call-function request for a function outside the client's authorized
\* set is answered 403 with no remote invocation, except that the bypass names are
\* authorized for every client, whatever the authorization store holds or does.
C16_FunctionAuthorization ==
    V1Verified
    => /\ (/\ arg.function_name \notin BypassFunctions
           /\ arg.function_name \notin env.authorized[arg.token.sub])
          => (ret.result.status = 403 /\ ret.result.sent = <<>>)
       /\ arg.function_name \in BypassFunctions
          => (ret.result.status # 403
              /\ Positions(ret.result.steps, "authorized") # {})

\* a verified client asked for a function outside its set while the store answered
C16_Witness ==
    /\ V1Verified
    /\ env.store_up
    /\ arg.function_name = "Z_SECRET"
    /\ ret.result.status = 403

\* C17: an authenticated and authorized v1 request naming a function without a
\* metadata document is answered 404 and the remote function is not invoked.
C17_UnknownMetadataIs404 ==
    (/\ V1Verified
     /\ Positions(ret.result.steps, "authorized") # {}
     /\ arg.function_name \notin DOMAIN MetadataDocuments)
    => (ret.result.status = 404 /\ ret.result.sent = <<>>)

\* C18: a v1 call-function request whose remote call fails is answered 503 when
\* the SAP system could not be reached and 500 when it rejected the call.
C18_RemoteFailureStatuses ==
    (ret.called /\ arg.fn = "v1" /\ ret.result.sent # <<>>)
    => /\ arg.sap.kind = "unreachable" => ret.result.status = 503
       /\ arg.sap.kind = "rejected" => ret.result.status = 500

----------------------------------------------------------------------------
(* Successive call-function requests of one client, beside the rate limiter   *)
(*                                                                            *)
(* call_sap_function declares one dependency, verify_client_token; SAPRateLimit *)
(* is imported by app/api/v1/sap.py and used by none of its routes. The       *)
(* limiter is consulted by the endpoints that declare a rate limit dependency *)
(* and by the health check. arg is the client's latest request together with  *)
(* the times and statuses of its earlier ones, ret the latest response.       *)

\* the client's bearer token, valid for the whole run
SapClientToken == [signed |-> TRUE, exp |-> 5, sub |-> "c1", type |-> "client"]

\* the requests the client sends
SapRequests ==
    [function_name : {"ZMAST_CUSTOMER"},
     parameters : { ParameterTree(Absent, Fields(JDict(<<"MATNR">>, <<JStr(<<"1">>)>>)),
                                  Absent) },
     sap : { o \in SapOutcomes :
               o.kind = "unreachable" \/ (o.kind = "answered" /\ o.data = JEmptyDict) }]

\* RATE_LIMITS["sap"] (50 requests an hour in the source), scaled to the model
SapLimit == [max_requests |-> MaxRequests, window_seconds |-> MaxWindow]

InitSapRate ==
    /\ now = 0
    /\ env \in { e \in HttpEnvs : e.store_up }
    /\ arg = [fn |-> "none", history |-> <<>>]
    /\ ret = NotCalled
    /\ limits = [e \in Endpoints |-> SapLimit]
    /\ buckets = [k \in Keys |-> NoBucket]
    /\ last = NoCall
    /\ run = [k \in Keys |-> <<>>]
    /\ pc = <<>>
    /\ lock = NoThread
    /\ local = <<>>
    /\ admitted = 0
    /\ purged = 0

\* the clock advances
SrTick ==
    /\ now < MaxCalls
    /\ now' = now + 1
    /\ UNCHANGED <<limits, buckets, last, run, thVars, fnVars>>

\* the requests answered before the next one: the earlier ones and the latest
SrAnswered ==
    IF ret.called
    THEN Append(arg.history, [time |-> arg.at, status |-> ret.result.status,
                              invoked |-> ret.result.sent # <<>>])
    ELSE arg.history

\* the client's next request to POST /api/v1/sap/call-function, answered
SrCallFunction(request) ==
    /\ Len(SrAnswered) <= MaxRequests
    /\ arg' = [fn |-> "v1", token |-> SapClientToken,
               function_name |-> request.function_name,
               parameters |-> request.parameters, sap |-> request.sap,
               at |-> now, history |-> SrAnswered]
    /\ ret' = Result(V1CallSapFunction(SapClientToken, request.function_name,
                                       request.parameters, request.sap, env))
    /\ UNCHANGED <<rlVars, thVars, env>>

\* a request to an endpoint that declares a rate limit dependency, or the health
\* check: one check_rate_limit call
SrRateLimited(identifier, endpoint_type) ==
    /\ CheckRateLimit(identifier, endpoint_type)
    /\ UNCHANGED <<thVars, fnVars>>

\* the client sends one of its requests
SrRequest == \E request \in SapRequests : SrCallFunction(request)

NextSapRate ==
    \/ SrTick
    \/ SrRequest
    \/ \E i \in Identifiers, e \in Endpoints : SrRateLimited(i, e)

SpecSapRate == InitSapRate /\ [][NextSapRate]_vars

\* the earlier requests of the client that were let through to the handler less
\* than one window before the latest request
AdmittedInWindow ==
    { i \in 1..Len(arg.history) :
        /\ arg.history[i].status # 429
        /\ arg.history[i].time > arg.at - limits["sap"].window_seconds * TicksPerSecond }

\* C19: once max_requests call-function requests of one client were admitted
\* within the window, a further request of that client in the same window is
\* answered 429 and the remote function is not invoked.
C19_CallFunctionRateLimited ==
    (/\ ret.called
     /\ arg.fn = "v1"
     /\ Cardinality(AdmittedInWindow) >= limits["sap"].max_requests)
    => (ret.result.status = 429 /\ ret.result.sent = <<>>)

----------------------------------------------------------------------------
(* Claims about the identity the token dependencies return *)

\* the identity a successful verification returns
ReturnedIdentity(token_data) ==
    IF token_data.client_id # NoId THEN token_data.client_id ELSE token_data.employee_id

\* C20: a token dependency that returns successfully returns a non-empty identity,
\* and a validly signed, unexpired token whose sub claim is absent or the empty
\* string is rejected with 401.
C20_NonEmptySubject ==
    (ret.called
       /\ arg.fn \in {"verify_client_token", "verify_user_token", "verify_any_token"})
    => /\ ret.result.ok
          => (ReturnedIdentity(ret.result) # NoId /\ ReturnedIdentity(ret.result) # "")
       /\ (arg.token.signed /\ arg.token.exp >= arg.at /\ arg.token.sub \in {NoClaim, ""})
          => (~ret.result.ok /\ ret.result.status = 401)

\* ---------------------------------------------------------------------------
\* Issuing user tokens: create_user_access_token, and the verification of a
\* token it issued
\* ---------------------------------------------------------------------------

\* the lifetimes a caller passes as expires_delta, in whole seconds
MaxTtl == 2

ACCESS_TOKEN_EXPIRE_MINUTES == 120

\* "if expires_delta:" : None is falsy, and so is timedelta(0)
ExpiresDeltaGiven(expires_delta) == expires_delta.given /\ expires_delta.seconds # 0

\* the "exp" claim: datetime.utcnow() + expires_delta if that is truthy, else
\* datetime.utcnow() + timedelta(minutes=ACCESS_TOKEN_EXPIRE_MINUTES); the
\* encoder writes it in whole seconds
CreateUserAccessToken(data, expires_delta) ==
    LET expire == IF ExpiresDeltaGiven(expires_delta)
                  THEN NowSeconds + expires_delta.seconds
                  ELSE NowSeconds + ACCESS_TOKEN_EXPIRE_MINUTES * 60
    IN  [signed |-> TRUE, exp |-> expire, sub |-> data.sub, type |-> data.type]

\* the payload the login endpoint signs
LoginData == [sub |-> "e1", type |-> "user"]

\* timedelta(seconds=s), or the default None
TimeDelta(s) == [given |-> TRUE, seconds |-> s]

NoDelta == [given |-> FALSE, seconds |-> 0]

ExpiresDeltas == {TimeDelta(s) : s \in 0 .. MaxTtl} \cup {NoDelta}

NotIssued == [fn |-> "none"]

InitIssue ==
    /\ now = 0
    /\ env \in Envs
    /\ arg = NotIssued
    /\ ret = NotCalled
    /\ limits = [e \in Endpoints |-> [max_requests |-> 1, window_seconds |-> 1]]
    /\ buckets = [k \in Keys |-> NoBucket]
    /\ last = NoCall
    /\ run = [k \in Keys |-> <<>>]
    /\ pc = <<>>
    /\ lock = NoThread
    /\ local = <<>>
    /\ admitted = 0
    /\ purged = 0

IssTick ==
    /\ now < MaxTime
    /\ now' = now + 1
    /\ UNCHANGED <<limits, buckets, last, run, thVars, fnVars>>

\* create_user_access_token(data, expires_delta)
IssCreate(expires_delta) ==
    /\ arg' = [fn |-> "create_user_access_token", expires_delta |-> expires_delta,
               issued_at |-> NowSeconds, at |-> NowSeconds,
               token |-> CreateUserAccessToken(LoginData, expires_delta)]
    /\ ret' = NotCalled
    /\ UNCHANGED <<env, rlVars, thVars>>

\* the issued token presented to Depends(verify_user_token)
IssVerifyUser ==
    /\ arg.fn # "none"
    /\ arg' = [arg EXCEPT !.fn = "verify_user_token", !.at = NowSeconds]
    /\ ret' = Result(VerifyUserToken(arg.token, env))
    /\ UNCHANGED <<env, rlVars, thVars>>

\* the issued token presented to Depends(verify_any_token)
IssVerifyAny ==
    /\ arg.fn # "none"
    /\ arg' = [arg EXCEPT !.fn = "verify_any_token", !.at = NowSeconds]
    /\ ret' = Result(VerifyAnyToken(arg.token, env))
    /\ UNCHANGED <<env, rlVars, thVars>>

\* the issued token presented to Depends(verify_client_token)
IssVerifyClient ==
    /\ arg.fn # "none"
    /\ arg' = [arg EXCEPT !.fn = "verify_client_token", !.at = NowSeconds]
    /\ ret' = Result(VerifyClientToken(arg.token))
    /\ UNCHANGED <<env, rlVars, thVars>>

IssCreateToken == \E expires_delta \in ExpiresDeltas : IssCreate(expires_delta)

NextIssue ==
    \/ IssTick
    \/ IssCreateToken
    \/ IssVerifyUser
    \/ IssVerifyAny
    \/ IssVerifyClient

SpecIssue == InitIssue /\ [][NextIssue]_vars

\* C21: a token issued with a lifetime of ttl >= 0 seconds carries
\* exp = issue time + ttl, so one issued with ttl 0 is rejected as expired by
\* every verify function once the issue second has passed.
C21_ExpiryIsIssuePlusTtl ==
    (arg.fn # "none" /\ arg.expires_delta.given)
    => /\ arg.token.exp = arg.issued_at + arg.expires_delta.seconds
       /\ (ret.called /\ arg.expires_delta.seconds = 0 /\ arg.at > arg.issued_at)
          => (~ret.result.ok /\ ret.result.what \in
                {"TOKEN_EXPIRED", "USER_TOKEN_EXPIRED"})

\* the part of C21 that the code keeps: a positive lifetime is added to the
\* issue time
C21_PositiveTtl ==
    (arg.fn # "none" /\ arg.expires_delta.given /\ arg.expires_delta.seconds > 0)
    => arg.token.exp = arg.issued_at + arg.expires_delta.seconds

\* ---------------------------------------------------------------------------
\* User tokens and the employee's ACTIVE flag (SpecToken)
\* ---------------------------------------------------------------------------

\* the call just made presented a validly signed, unexpired token with a
\* subject and the given type claim to one of the given dependencies
Presented(a, fns, types) ==
    /\ a.fn \in fns
    /\ a.token.signed
    /\ a.token.exp >= a.at
    /\ a.token.sub # NoClaim
    /\ a.token.type \in types

\* C22: a validly signed, unexpired token of type "user" is accepted by
\* verify_user_token and verify_any_token only if the employee store reports its
\* subject active when the request is made; otherwise (deactivated, or the check
\* fails) the request is rejected with 401 USER_NOT_FOUND. A token without a
\* type claim is a client token for verify_any_token and is accepted without
\* the check.
C22_ActiveAtRequestTime ==
    [][(env' = env /\ now' = now)
       => /\ Presented(arg', {"verify_user_token", "verify_any_token"}, {"user"})
             => IF env.store_up /\ arg'.token.sub \in env.active
                THEN ret'.result.ok /\ ret'.result.employee_id = arg'.token.sub
                ELSE /\ ~ret'.result.ok
                     /\ ret'.result.status = 401
                     /\ ret'.result.what = "USER_NOT_FOUND"
          /\ Presented(arg', {"verify_any_token"}, {NoClaim})
             => ret'.result.ok /\ ret'.result.client_id = arg'.token.sub]_vars

\* a user token of an employee who is not active is rejected although the
\* store answers
C22_Witness ==
    /\ ret.called
    /\ Presented(arg, {"verify_any_token"}, {"user"})
    /\ arg.token.sub = "e1"
    /\ env.store_up /\ "e1" \notin env.active
    /\ ~ret.result.ok
    /\ ret.result.what = "USER_NOT_FOUND"

\* ---------------------------------------------------------------------------
\* The rate-limit dependency: create_rate_limit_dependency(endpoint_type,
\* custom_limit) and the rate_limit_dependency it returns
\* ---------------------------------------------------------------------------

NoTokenData == [given |-> FALSE]

\* the token_data dicts the dependency is given, and None
DepTokenData == {NoTokenData, [given |-> TRUE, client_id |-> "a"]}

\* the requests: the peer address and the X-Forwarded-For header
DepRequests == [host : {"10.0.0.1"}, forwarded_for : {NoId, "10.0.0.2"}]

\* RateLimitService.get_client_identifier(request, token_data)
GetClientIdentifier(request, token_data) ==
    IF token_data.given
    THEN "client:" \o token_data.client_id
    ELSE IF request.forwarded_for # NoId
    THEN "ip:" \o request.forwarded_for
    ELSE "ip:" \o request.host

DepEndpoints == {"customer"}

DepIdentifiers ==
    {GetClientIdentifier(r, t) : r \in DepRequests, t \in DepTokenData}

DepKeys == {ClientKey(i, e) : i \in DepIdentifiers, e \in DepEndpoints}

NoLimit == [given |-> FALSE]

\* custom_limit: None, or a dict; one without "window_seconds" makes
\* limit_config["window_seconds"] raise KeyError
CustomLimits == {NoLimit, [given |-> TRUE, keys |-> {"max_requests"}, max_requests |-> 1]}

\* where an exception is raised inside the try block, if anywhere
DepFaults == {"none", "get_client_identifier", "check_rate_limit"}

\* a dependency that answers 500 when the limiter raises
OnLimiterErrorClosed == HttpError(500, "rate_limit_error", <<>>)

\* "except Exception": return {"allowed": True, "limit": 0, "remaining": 0}
OnLimiterError ==
    [ok |-> TRUE, value |-> [allowed |-> TRUE, limit |-> 0, remaining |-> 0]]

\* check_rate_limit raises before is_allowed runs: a fault, or a custom_limit
\* lacking one of the two keys
CheckRaises(custom_limit, fault) ==
    \/ fault = "check_rate_limit"
    \/ custom_limit.given
       /\ {"max_requests", "window_seconds"} \ custom_limit.keys # {}

\* "if custom_limit: ... else: cls.RATE_LIMITS.get(endpoint_type, ...)"
LimitConfig(lims, endpoint_type, custom_limit) ==
    IF custom_limit.given
    THEN [max_requests |-> custom_limit.max_requests,
          window_seconds |-> custom_limit.window_seconds]
    ELSE lims[endpoint_type]

\* rate_limit_dependency(request, token_data): the buckets it leaves, whether the
\* limiter was consulted and what it said, and what the dependency returns or
\* raises
RateLimitDependency(bkts, lims, current_time, request, token_data, endpoint_type, custom_limit, fault) ==
    IF fault = "get_client_identifier" \/ CheckRaises(custom_limit, fault)
    THEN [buckets |-> bkts, consulted |-> FALSE, result |-> OnLimiterError]
    ELSE LET identifier == GetClientIdentifier(request, token_data)
             cfg == LimitConfig(lims, endpoint_type, custom_limit)
             r == IsAllowedBody(bkts, current_time, identifier, cfg.max_requests,
                                cfg.window_seconds, endpoint_type)
         IN  [buckets |-> r.buckets, consulted |-> TRUE, allowed |-> r.allowed,
              result |-> IF ~r.allowed
                         THEN HttpError(429, "Rate limit exceeded", <<r.info>>)
                         ELSE [ok |-> TRUE, value |-> r.info]]

\* RATE_LIMITS["customer"], scaled to the model
DepLimit == [max_requests |-> 1, window_seconds |-> MaxWindow]

InitDep ==
    /\ now = 0
    /\ limits = [e \in DepEndpoints |-> DepLimit]
    /\ buckets = [k \in DepKeys |-> NoBucket]
    /\ last = NoCall
    /\ run = <<>>
    /\ arg = [fn |-> "none"]
    /\ ret = NotCalled
    /\ env = "none"
    /\ pc = <<>>
    /\ lock = NoThread
    /\ local = <<>>
    /\ admitted = 0
    /\ purged = 0

DepTick ==
    /\ now < MaxCalls
    /\ now' = now + 1
    /\ UNCHANGED <<limits, buckets, last, run, thVars, fnVars>>

\* one request through Depends(rate_limit_dependency)
DepCall(request, token_data, endpoint_type, custom_limit, fault) ==
    LET d == RateLimitDependency(buckets, limits, now, request, token_data,
                                 endpoint_type, custom_limit, fault)
        key == ClientKey(GetClientIdentifier(request, token_data), endpoint_type)
    IN  /\ buckets' = d.buckets
        /\ arg' = [fn |-> "rate_limit_dependency", request |-> request,
                   token_data |-> token_data, custom_limit |-> custom_limit,
                   fault |-> fault, at |-> now]
        /\ last' = IF d.consulted
                   THEN [called |-> TRUE, key |-> key,
                         before |-> IF buckets[key].present
                                    THEN buckets[key].requests ELSE <<>>,
                         allowed |-> d.allowed]
                   ELSE NoCall
        /\ ret' = Result(d.result)
        /\ UNCHANGED <<now, limits, run, env, thVars>>

DepRequest ==
    \E request \in DepRequests, token_data \in DepTokenData,
       endpoint_type \in DepEndpoints, custom_limit \in CustomLimits,
       fault \in DepFaults :
        DepCall(request, token_data, endpoint_type, custom_limit, fault)

NextDep ==
    \/ DepTick
    \/ DepRequest

SpecDep == InitDep /\ [][NextDep]_vars

\* an exception was raised inside the dependency's try block before the limiter
\* answered
DepFaulted(a) ==
    \/ a.fault # "none"
    \/ a.custom_limit.given /\ "window_seconds" \notin a.custom_limit.keys

\* C23: when anything other than a denial goes wrong inside the rate-limit
\* dependency, the dependency returns "allowed" and the request proceeds; the only
\* error the dependency raises is 429, and only when the limiter denied the call.
C23_FailOpen ==
    (ret.called /\ arg.fn = "rate_limit_dependency")
    => /\ DepFaulted(arg) => (ret.result.ok /\ ret.result.value.allowed)
       /\ ~ret.result.ok
          => /\ ret.result.status = 429
             /\ ~DepFaulted(arg)
             /\ last.called /\ ~last.allowed

\* the limiter raised for a client whose bucket is full, and the request went on
C23_Witness ==
    /\ ret.called /\ arg.fn = "rate_limit_dependency"
    /\ DepFaulted(arg)
    /\ ret.result.ok
    /\ LET key == ClientKey(GetClientIdentifier(arg.request, arg.token_data), "customer")
       IN  /\ buckets[key].present
           /\ Len(PurgeFront(buckets[key].requests, now, limits["customer"].window_seconds))
                >= limits["customer"].max_requests

\* ---------------------------------------------------------------------------
\* Order of the timestamps in a bucket under concurrent callers (SpecThreads)
\* ---------------------------------------------------------------------------

NonDecreasing(requests) ==
    \A i \in 1 .. (Len(requests) - 1) : requests[i] <= requests[i + 1]

\* C24: in every reachable state, concurrent is_allowed calls on one key included,
\* the timestamps of a bucket are in non-decreasing order from oldest to newest.
C24_OrderedBucket ==
    \A k \in Keys : buckets[k].present => NonDecreasing(buckets[k].requests)

\* ---------------------------------------------------------------------------
\* Remote sessions: connect_to_sap, conn.call and conn.close in call_bapi,
\* call_rfc_read_table and the billing service
\* ---------------------------------------------------------------------------

\* sessions the remote system has seen opened, before a new call is started
MaxSessions == 4

\* the remote system's view: sessions open now, and sessions closed so far
NoSessions == [open |-> 0, closed |-> 0]

\* Connection(...) succeeded: one more open session
Opened(s) == [s EXCEPT !.open = @ + 1]

\* conn.close()
Closed(s) == [open |-> s.open - 1, closed |-> s.closed + 1]

\* what the remote system does during one session: the connection cannot be
\* made, the call raises, or the call answers (with or without rows)
SessionOutcomes == {"unreachable", "rejected", "no_rows", "rows"}

\* call_bapi with its session: conn = None; try: connect, call, return;
\* except: return error; finally: if conn: conn.close()
CallBapiSession(s, sap) ==
    IF sap = "unreachable"
    THEN [sessions |-> s, raised |-> FALSE, status |-> "error"]
    ELSE [sessions |-> Closed(Opened(s)), raised |-> FALSE,
          status |-> IF sap = "rejected" THEN "error" ELSE "success"]

\* call_rfc_read_table: connect_to_sap() before the try; the try has an except
\* clause and no finally, and nothing calls conn.close()
CallRfcReadTable(s, sap) ==
    IF sap = "unreachable"
    THEN [sessions |-> s, raised |-> TRUE, status |-> "raised"]
    ELSE [sessions |-> Opened(s), raised |-> FALSE,
          status |-> IF sap = "rejected" THEN "failed" ELSE "success"]

\* validate_delivery_document: its own session, closed in finally; valid only if
\* the delivery rows were found
ValidateDeliveryDocument(s, sap) ==
    IF sap = "unreachable"
    THEN [sessions |-> s, valid |-> FALSE]
    ELSE [sessions |-> Closed(Opened(s)), valid |-> (sap = "rows")]

\* check_delivery_status: validation first (early return before any connection of
\* its own), then connect, the test call inside two nested try blocks, and
\* conn.close() in finally
CheckDeliveryStatus(s, validation, sap) ==
    LET v == ValidateDeliveryDocument(s, validation)
    IN  IF ~v.valid
        THEN [sessions |-> v.sessions, raised |-> FALSE, status |-> "error"]
        ELSE IF sap = "unreachable"
        THEN [sessions |-> v.sessions, raised |-> FALSE, status |-> "error"]
        ELSE [sessions |-> Closed(Opened(v.sessions)), raised |-> FALSE,
              status |-> "success"]

InitConn ==
    /\ now = 0
    /\ limits = [e \in Endpoints |-> [max_requests |-> 1, window_seconds |-> 1]]
    /\ buckets = [k \in Keys |-> NoBucket]
    /\ last = NoCall
    /\ run = [k \in Keys |-> <<>>]
    /\ arg = [fn |-> "none"]
    /\ ret = NotCalled
    /\ env = NoSessions
    /\ pc = <<>>
    /\ lock = NoThread
    /\ local = <<>>
    /\ admitted = 0
    /\ purged = 0

\* a new call is started only while the remote system has seen fewer than
\* MaxSessions sessions
ConnBudget == env.open + env.closed < MaxSessions

ConnCallBapi ==
    /\ ConnBudget
    /\ \E sap \in SessionOutcomes :
          LET r == CallBapiSession(env, sap)
          IN  /\ env' = r.sessions
              /\ arg' = [fn |-> "call_bapi", sap |-> <<sap>>]
              /\ ret' = Result([raised |-> r.raised, status |-> r.status])
    /\ UNCHANGED <<rlVars, thVars>>

ConnCallRfcReadTable ==
    /\ ConnBudget
    /\ \E sap \in SessionOutcomes :
          LET r == CallRfcReadTable(env, sap)
          IN  /\ env' = r.sessions
              /\ arg' = [fn |-> "call_rfc_read_table", sap |-> <<sap>>]
              /\ ret' = Result([raised |-> r.raised, status |-> r.status])
    /\ UNCHANGED <<rlVars, thVars>>

ConnCheckDeliveryStatus ==
    /\ ConnBudget
    /\ \E validation \in SessionOutcomes, sap \in SessionOutcomes :
          LET r == CheckDeliveryStatus(env, validation, sap)
          IN  /\ env' = r.sessions
              /\ arg' = [fn |-> "check_delivery_status", sap |-> <<validation, sap>>]
              /\ ret' = Result([raised |-> r.raised, status |-> r.status])
    /\ UNCHANGED <<rlVars, thVars>>

NextConn ==
    \/ ConnCallBapi
    \/ ConnCallRfcReadTable
    \/ ConnCheckDeliveryStatus

SpecConn == InitConn /\ [][NextConn]_vars

\* C25: call_bapi, call_rfc_read_table and the billing service functions close the
\* session they opened on every exit path, so whenever no call is running the
\* number of open remote sessions is zero.
C25_SessionsReleased == env.open = 0

\* the part of C25 that holds: calls of call_bapi and check_delivery_status leave
\* no session open
C25_ReleasedWithoutReadTable ==
    [][arg'.fn \in {"call_bapi", "check_delivery_status"} => env'.open = env.open]_vars

\* ---------------------------------------------------------------------------
\* The periodic sweep next to a limiter that is never swept: the same calls are
\* made on both, cleanup_old_buckets runs only on the first
\* ---------------------------------------------------------------------------

\* the clock runs long enough for a bucket to become older than max_age_seconds
SweepHorizon == (DefaultMaxAge + 1) * TicksPerSecond + 1

InitSweep ==
    /\ now = 0
    /\ limits \in [Endpoints -> LimitConfigs]
    /\ buckets = [k \in Keys |-> NoBucket]
    /\ env = [k \in Keys |-> NoBucket]
    /\ last = NoCall
    /\ ret = NotCalled
    /\ run = [k \in Keys |-> <<>>]
    /\ arg = [fn |-> "none"]
    /\ pc = <<>>
    /\ lock = NoThread
    /\ local = <<>>
    /\ admitted = 0
    /\ purged = 0

SwTick ==
    /\ now < SweepHorizon
    /\ now' = now + 1
    /\ UNCHANGED <<limits, buckets, last, run, thVars, fnVars>>

\* check_rate_limit(identifier, endpoint_type) on the swept limiter (buckets) and
\* on the limiter that is never swept (env)
SwCheckRateLimit(identifier, endpoint_type) ==
    LET cfg == limits[endpoint_type]
        key == ClientKey(identifier, endpoint_type)
        result == IsAllowedBody(buckets, now, identifier, cfg.max_requests,
                                cfg.window_seconds, endpoint_type)
        unswept == IsAllowedBody(env, now, identifier, cfg.max_requests,
                                 cfg.window_seconds, endpoint_type)
    IN  /\ buckets' = result.buckets
        /\ env' = unswept.buckets
        /\ last' = [called |-> TRUE, key |-> key, time |-> now,
                    swept |-> (env[key].present /\ ~buckets[key].present),
                    allowed |-> result.allowed, info |-> result.info]
        /\ ret' = Result([allowed |-> unswept.allowed, info |-> unswept.info])
        /\ arg' = [fn |-> "check_rate_limit", identifier |-> identifier,
                   endpoint_type |-> endpoint_type]
        /\ UNCHANGED <<now, limits, run, thVars>>

\* RateLimitService.cleanup_old_data() between two calls
SwCleanupOldData ==
    /\ buckets' = CleanupOldBuckets(buckets, now, DefaultMaxAge)
    /\ buckets' # buckets
    /\ UNCHANGED <<now, limits, last, run, thVars, fnVars>>

SwRequest == \E i \in Identifiers, e \in Endpoints : SwCheckRateLimit(i, e)

NextSweep ==
    \/ SwTick
    \/ SwRequest
    \/ SwCleanupOldData

SpecSweep == InitSweep /\ [][NextSweep]_vars

\* C26: with window_seconds <= max_age_seconds, running cleanup_old_buckets between
\* is_allowed calls changes nothing a later call returns: allowed or denied,
\* remaining and retry_after are those of the same calls made without any sweep.
C26_SweepInvisible ==
    (last.called /\ limits[last.key[2]].window_seconds <= DefaultMaxAge)
    => /\ last.allowed = ret.result.allowed
       /\ last.info.remaining = ret.result.info.remaining
       /\ last.info.retry_after = ret.result.info.retry_after

\* a call on a key whose bucket the sweep had removed
C26_Witness ==
    /\ last.called
    /\ last.swept
    /\ limits[last.key[2]].window_seconds <= DefaultMaxAge

\* ---------------------------------------------------------------------------
\* Retrying after the advertised Retry-After (SpecRL)
\* ---------------------------------------------------------------------------

\* C27: if a call on a key is denied at time t with retry_after = r, and the next
\* call on that key is made at t + r seconds (nothing admitted in between), that
\* call is admitted.
C27_RetryAfterSufficient ==
    [][(/\ last.called /\ ~last.allowed
        /\ last'.called
        /\ last'.key = last.key
        /\ last'.time = last.time + last.info.retry_after * TicksPerSecond)
       => last'.allowed]_vars

\* the same with the clock read on whole seconds only: the wait is then a whole
\* number of seconds and truncation loses nothing
C27_WholeSeconds ==
    [][(/\ last.called /\ ~last.allowed
        /\ last'.called
        /\ last'.key = last.key
        /\ last'.time = last.time + last.info.retry_after * TicksPerSecond
        /\ \A i \in 1 .. Len(last.after) : last.after[i] % TicksPerSecond = 0
        /\ last.time % TicksPerSecond = 0)
       => last'.allowed]_vars

\* ---------------------------------------------------------------------------
\* The v1 call-function endpoint while the authorization store fails (SpecHttp)
\* ---------------------------------------------------------------------------

\* C28: when the authorization store lookup raises for a function that is not a
\* bypass name, is_function_authorized answers False and the v1 call-function
\* request is answered 403 before metadata is loaded and without any remote
\* invocation.
C28_AuthorizationFailsClosed ==
    (V1Verified /\ ~env.store_up /\ arg.function_name \notin BypassFunctions)
    => /\ ret.result.status = 403
       /\ Positions(ret.result.steps, "metadata_loaded") = {}
       /\ Positions(ret.result.steps, "remote_invoked") = {}
       /\ ret.result.sent = <<>>

\* the store failed for a function that its table grants to the client
C28_Witness ==
    /\ V1Verified
    /\ ~env.store_up
    /\ arg.function_name = "Z_ORDER"
    /\ arg.function_name \in env.authorized[arg.token.sub]
    /\ ret.result.status = 403

\* ---------------------------------------------------------------------------
\* Request tracking: RequestTracker and monitoring_middleware
\* ---------------------------------------------------------------------------

\* requests the middleware sees in one behaviour
MaxTracked == 3

\* the request ids uuid4 hands out, each once
RequestIds == 1 .. MaxTracked

\* RequestTracker.__init__: active_requests = {}
NoActiveRequests == << >>

\* RequestTracker.start_request: active_requests[request_id] = {start_time, data}
StartRequest(active_requests, request_id, current_time) ==
    [i \in DOMAIN active_requests \cup {request_id} |->
        IF i = request_id THEN [start_time |-> current_time]
        ELSE active_requests[i]]

\* RequestTracker.end_request: pop the id if it is tracked and return the
\* duration, else return None
EndRequest(active_requests, request_id, current_time) ==
    IF request_id \in DOMAIN active_requests
    THEN [active_requests |->
              [i \in DOMAIN active_requests \ {request_id} |-> active_requests[i]],
          tracked |-> TRUE,
          duration |-> current_time - active_requests[request_id].start_time]
    ELSE [active_requests |-> active_requests, tracked |-> FALSE, duration |-> 0]

\* RequestTracker.get_active_requests_count
GetActiveRequestsCount(active_requests) == Cardinality(DOMAIN active_requests)

\* what the rest of the application answers to call_next(request)
HandlerStatuses == {200, 404, 500}

InitTrack ==
    /\ now = 0
    /\ env = NoActiveRequests
    /\ pc = [i \in RequestIds |-> "new"]
    /\ arg = [fn |-> "none"]
    /\ ret = NotCalled
    /\ limits = [e \in Endpoints |-> [max_requests |-> 1, window_seconds |-> 1]]
    /\ buckets = [k \in Keys |-> NoBucket]
    /\ last = NoCall
    /\ run = [k \in Keys |-> <<>>]
    /\ lock = NoThread
    /\ local = <<>>
    /\ admitted = 0
    /\ purged = 0

MwTick ==
    /\ now < MaxThreadTime
    /\ now' = now + 1
    /\ UNCHANGED <<limits, buckets, last, run, thVars, fnVars>>

\* monitoring_middleware up to "await call_next(request)": a fresh request id,
\* request_tracker.start_request
MwStart(request_id) ==
    /\ pc[request_id] = "new"
    /\ \A i \in RequestIds : i < request_id => pc[i] # "new"
    /\ env' = StartRequest(env, request_id, now)
    /\ pc' = [pc EXCEPT ![request_id] = "handling"]
    /\ arg' = [fn |-> "start_request", request_id |-> request_id]
    /\ ret' = NotCalled
    /\ UNCHANGED <<rlVars, lock, local, admitted, purged>>

\* call_next returned a response: end_request, the logs and the headers
MwReturn(request_id, status_code) ==
    /\ pc[request_id] = "handling"
    /\ LET tracking_result == EndRequest(env, request_id, now)
       IN  /\ env' = tracking_result.active_requests
           /\ ret' = Result([raised |-> FALSE, status_code |-> status_code,
                             logged |-> tracking_result.tracked,
                             duration |-> tracking_result.duration])
    /\ pc' = [pc EXCEPT ![request_id] = "returned"]
    /\ arg' = [fn |-> "call_next", request_id |-> request_id]
    /\ UNCHANGED <<rlVars, lock, local, admitted, purged>>

\* call_next raised: the except clause logs the error, records a 500 in the
\* metrics and re-raises; it does not call end_request
MwRaise(request_id) ==
    /\ pc[request_id] = "handling"
    /\ ret' = Result([raised |-> TRUE, status_code |-> 500, logged |-> FALSE,
                      duration |-> 0])
    /\ pc' = [pc EXCEPT ![request_id] = "raised"]
    /\ arg' = [fn |-> "call_next", request_id |-> request_id]
    /\ UNCHANGED <<rlVars, env, lock, local, admitted, purged>>

MwBegin == \E request_id \in RequestIds : MwStart(request_id)

MwHandlerReturns ==
    \E request_id \in RequestIds, status_code \in HandlerStatuses :
        MwReturn(request_id, status_code)

MwHandlerRaises == \E request_id \in RequestIds : MwRaise(request_id)

NextTrack ==
    \/ MwTick
    \/ MwBegin
    \/ MwHandlerReturns
    \/ MwHandlerRaises

SpecTrack == InitTrack /\ [][NextTrack]_vars

\* the requests the middleware has started and not yet finished
InFlight == {i \in RequestIds : pc[i] = "handling"}

\* C29: a request id registered by the middleware is removed from
\* active_requests by the time the middleware finishes, whether the handler
\* returns or raises, so get_active_requests_count is the number of requests in
\* flight (0 when none is).
C29_ActiveIsInFlight ==
    /\ DOMAIN env = InFlight
    /\ GetActiveRequestsCount(env) = Cardinality(InFlight)

\* the part of C29 that holds: a request whose handler returned a response is
\* no longer tracked, and every request in flight is
C29_ReturnedIsRemoved ==
    /\ \A i \in RequestIds : pc[i] = "returned" => i \notin DOMAIN env
    /\ InFlight \subseteq DOMAIN env

\* ---------------------------------------------------------------------------
\* The cached customer lookup: cache_response(ttl_seconds=30) around
\* lookup_customer, behind Depends(verify_any_token) and Depends(CustomerRateLimit)
\* ---------------------------------------------------------------------------

\* ttl_seconds of the lookup cache (30 in the source), scaled to the model
LookupTtlSeconds == 1

\* lookups made in one behaviour
MaxLookups == 2

\* the "name" query parameter: absent, or a search text
LookupNames == {NoId, "acme"}

\* the bearer tokens presented: a valid client token, and one with a bad signature
LookupTokens ==
    { [signed |-> TRUE, exp |-> LookupTtlSeconds + 2, sub |-> "c1", type |-> "client"],
      [signed |-> FALSE, exp |-> LookupTtlSeconds + 2, sub |-> "c1", type |-> "client"] }

\* the employee store as verify_any_token sees it
LookupStore == [active |-> {}, store_up |-> TRUE]

\* the peer every lookup comes from
LookupRequest == [host |-> "10.0.0.1", forwarded_for |-> NoId]

\* RATE_LIMITS["customer"], scaled: more requests than the cache's lifetime needs,
\* in a window longer than the cache's ttl
LookupLimit ==
    [max_requests |-> MaxRequests + 1, window_seconds |-> LookupTtlSeconds + 1]

\* what the customer database does with a lookup
LookupDbOutcomes == {"found", "error"}

\* lookup_customer's body: 400 without a search criterion, else
\* CustomerService.lookup_customers and 200, or 500 when it reports an error
LookupCustomer(kwargs, db) ==
    IF kwargs.name = NoId
    THEN [status_code |-> 400, executed |-> FALSE]
    ELSE IF db = "error"
    THEN [status_code |-> 500, executed |-> TRUE]
    ELSE [status_code |-> 200, executed |-> TRUE]

\* key = (func.__name__, str(args), str(kwargs)): FastAPI passes every parameter by
\* keyword, so args is empty; str(kwargs) spells out every value of the dict, the
\* injected current_user and _rate_limit included, and two renderings are equal
\* exactly if all the values are
CacheKey(func_name, kwargs) ==
    <<func_name, <<>>, kwargs.name, kwargs.current_user, kwargs.rate_limit>>

\* a wrapper that returns a stored value whatever its age
CacheFreshAlways(entry, current_time) == TRUE

\* "if now < expires"
CacheFresh(entry, current_time) == current_time < entry.expires

\* cache_response's wrapper: return the stored value if the key is stored and
\* fresh, else run the function and store (result, now + ttl_seconds)
CacheWrapper(cache_store, current_time, kwargs, db) ==
    LET key == CacheKey("lookup_customer", kwargs)
    IN  IF key \in DOMAIN cache_store /\ CacheFresh(cache_store[key], current_time)
        THEN [cache_store |-> cache_store, hit |-> TRUE,
              value |-> [status_code |-> cache_store[key].value.status_code,
                         executed |-> FALSE]]
        ELSE LET result == LookupCustomer(kwargs, db)
             IN  [cache_store |->
                      [k \in DOMAIN cache_store \cup {key} |->
                          IF k = key
                          THEN [value |-> result,
                                expires |-> current_time + LookupTtlSeconds * TicksPerSecond]
                          ELSE cache_store[k]],
                  hit |-> FALSE, value |-> result]

\* the identity and parameters a lookup is repeated with
LookupIdentity(current_user, name) == <<ReturnedIdentity(current_user), name>>

LookupIdentities == {<<"c1", n>> : n \in LookupNames}

InitLookup ==
    /\ now = 0
    /\ limits = [e \in DepEndpoints |-> LookupLimit]
    /\ buckets = [k \in DepKeys |-> NoBucket]
    /\ env = << >>
    /\ run = [i \in LookupIdentities |-> <<>>]
    /\ last = NoCall
    /\ arg = [fn |-> "none"]
    /\ ret = NotCalled
    /\ pc = <<>>
    /\ lock = NoThread
    /\ local = <<>>
    /\ admitted = 0
    /\ purged = 0

LkTick ==
    /\ now < (LookupTtlSeconds + 1) * TicksPerSecond
    /\ now' = now + 1
    /\ UNCHANGED <<limits, buckets, last, run, thVars, fnVars>>

\* the answer to GET /api/v1/customers/lookup: the token dependency, the
\* rate-limit dependency, then the cached handler; run keeps, per identity and
\* parameters, when lookup_customers was last executed
LkAnswer(token, name, fault, db) ==
    LET current_user == VerifyAnyToken(token, LookupStore)
        d == RateLimitDependency(buckets, limits, now, LookupRequest, NoTokenData,
                                 "customer", NoLimit, fault)
        kwargs == [name |-> name, current_user |-> current_user,
                   rate_limit |-> d.result.value]
        w == CacheWrapper(env, now, kwargs, db)
        who == LookupIdentity(current_user, name)
    IN  /\ arg' = [fn |-> "lookup_customer", token |-> token, name |-> name,
                   fault |-> fault, at |-> now]
        /\ IF ~current_user.ok
           THEN /\ ret' = Result([status_code |-> 401, handled |-> FALSE,
                                  executed |-> FALSE, hit |-> FALSE,
                                  previous |-> <<>>])
                /\ UNCHANGED <<buckets, env, run>>
           ELSE IF ~d.result.ok
           THEN /\ ret' = Result([status_code |-> 429, handled |-> FALSE,
                                  executed |-> FALSE, hit |-> FALSE,
                                  previous |-> <<>>])
                /\ buckets' = d.buckets
                /\ UNCHANGED <<env, run>>
           ELSE /\ ret' = Result([status_code |-> w.value.status_code,
                                  handled |-> TRUE,
                                  executed |-> w.value.executed, hit |-> w.hit,
                                  previous |-> run[who]])
                /\ buckets' = d.buckets
                /\ env' = w.cache_store
                /\ run' = IF w.value.executed
                          THEN [run EXCEPT ![who] = <<now>>]
                          ELSE run

\* one lookup request, answered
LkLookup(token, name, fault, db) ==
    /\ admitted < MaxLookups
    /\ admitted' = admitted + 1
    /\ LkAnswer(token, name, fault, db)
    /\ UNCHANGED <<now, limits, last, pc, lock, local, purged>>

LkRequest ==
    \E token \in LookupTokens, name \in LookupNames,
       fault \in {"none", "check_rate_limit"}, db \in LookupDbOutcomes :
        LkLookup(token, name, fault, db)

NextLookup ==
    \/ LkTick
    \/ LkRequest

SpecLookup == InitLookup /\ [][NextLookup]_vars

\* the lookup just answered repeats, with the same identity and parameters, one
\* whose lookup_customers execution completed a given number of ticks ago
RepeatedLookup ==
    /\ ret.called /\ arg.fn = "lookup_customer"
    /\ ret.result.handled
    /\ arg.name # NoId
    /\ ret.result.previous # <<>>

\* C30: a lookup repeated by the same identity with identical parameters less
\* than ttl_seconds after the first completed is served from the cache without
\* executing CustomerService.lookup_customers; at or after expiry the lookup is
\* executed again.
C30_RepeatServedFromCache ==
    RepeatedLookup
    => IF arg.at - ret.result.previous[1] < LookupTtlSeconds * TicksPerSecond
       THEN ret.result.hit /\ ~ret.result.executed
       ELSE ret.result.executed

\* the part of C30 that holds: at or after expiry the lookup is executed again
C30_ExecutedAfterExpiry ==
    (RepeatedLookup
       /\ arg.at - ret.result.previous[1] >= LookupTtlSeconds * TicksPerSecond)
    => ret.result.executed

\* a repeat is served from the cache when the rate limiter failed open on both
\* requests, so that both carried the same _rate_limit value
C30_CacheHit ==
    /\ RepeatedLookup
    /\ arg.fault # "none"
    /\ ret.result.hit
    /\ ~ret.result.executed

====
